---- MODULE Spec2Model ----
(***************************************************************************)
(* A model of the Fraud App Analyzer (Ian-Lusule/FAD): the sentiment       *)
(* scoring, the aggregation of labels into percentages, the risk decision, *)
(* the classification-quality estimate and the review fetch loop.          *)
(*                                                                         *)
(* Numbers.  Python floats are modelled as exact rationals [n, d] in       *)
(* lowest terms (d > 0); a polarity is an integer number of hundredths     *)
(* (-0.8 is -80, the thresholds 0.1 and -0.1 are 10 and -10).  IEEE        *)
(* rounding is therefore outside the model.                                *)
(*                                                                         *)
(* Text.  A str is a record [isStr |-> TRUE, chars |-> <<"s","c",...>>];   *)
(* None (and any other non-string) is [isStr |-> FALSE, chars |-> <<>>].   *)
(*                                                                         *)
(* The web application around them: one browser session (the search form,  *)
(* the comparison list, the e-mail quotas), the user store users.json and  *)
(* the message store messages.json.  A request handler is one step, except *)
(* add_message, whose load and save are two steps so that two calls can    *)
(* interleave.  The file system is taken to work: a save of users.json or  *)
(* messages.json succeeds.                                                 *)
(***************************************************************************)
EXTENDS Integers, Sequences, FiniteSets, TLC

VARIABLES
    call,               \* the pure function last called, with its arguments
    ret,                \* what that call returned (or that it raised)
    page,               \* analyze_direct: what the results page was rendered with
    payload,            \* the analysis file session['last_analysis_file'] points to
    email,              \* send_analysis_email: the risk section of the body sent
    pc,                 \* fetch_reviews: position in the function
    max_reviews,        \* fetch_reviews: its argument
    all_reviews,        \* fetch_reviews: local list
    continuation_token, \* fetch_reviews: local token
    provider_pages,     \* the pages the provider has handed out, in call order
    provider_raised,    \* whether a provider call raised
    requested,          \* the count argument of every provider call, in order
    provider_tokens,    \* the token each returning provider call handed out
    fetch_ret,          \* what fetch_reviews handed to its caller
    last_fraud_threshold,   \* session['last_fraud_threshold']
    last_max_reviews,       \* session['last_max_reviews']
    search_req,             \* the last search request: its form and its path
    compare_apps,           \* session['compare_apps']
    compare_req,            \* the last comparison request and the list before it
    anon_email_sent_count,  \* session['anon_email_sent_count'] (0 when absent)
    current_user,           \* the id the session is logged in with, 0 for none
    mail_req,               \* the last send_email_report request and its outcome
    users,              \* users.json: the list of user records
    today,              \* the calendar date, datetime.now().date()
    store_ret,          \* the last user-store call: its arguments and result
    deleters,           \* delete_user_route: per acting user, position and locals
    sent_today,         \* per user: reports that went out on the date `today`
                        \* for a request made while the user was verified
    anon_sent,          \* reports that went out for the session's anonymous requests
    senders,            \* send_email_report: per concurrent request, its position
    messages,           \* messages.json: the list of message records
    adders,             \* add_message: per caller, its position and locals
    msg_clock,          \* messages.json: calls of add_message begun, saves done
    accounts            \* every account of the store's one-at-a-time calls: its
                        \* id, and how many messages had been added when it was
                        \* created and when it was deleted

fnVars    == <<call, ret>>
riskVars  == <<page, payload, email>>
fetchVars == <<pc, max_reviews, all_reviews, continuation_token,
               provider_pages, provider_raised, requested, provider_tokens,
               fetch_ret>>
searchVars  == <<last_fraud_threshold, last_max_reviews, search_req>>
compareVars == <<compare_apps, compare_req>>
mailVars    == <<anon_email_sent_count, current_user, mail_req, sent_today,
                 anon_sent, senders, today>>
storeVars   == <<users, store_ret, deleters>>
msgVars     == <<messages, adders, msg_clock, accounts>>
webVars     == <<searchVars, compareVars, mailVars, storeVars, msgVars>>
vars      == <<call, ret, page, payload, email, pc, max_reviews, all_reviews,
               continuation_token, provider_pages, provider_raised, requested,
               provider_tokens, fetch_ret, last_fraud_threshold, last_max_reviews, search_req,
               compare_apps, compare_req, anon_email_sent_count, current_user,
               mail_req, users, today, store_ret, deleters, sent_today, anon_sent,
               senders,
               messages, adders,
               msg_clock, accounts>>

(***************************************************************************)
(* Bounds of the model.                                                    *)
(***************************************************************************)
MaxFrags      == 2    \* a text is built of at most this many fragments
MaxRows       == 3    \* rows of a DataFrame
MaxSampleEach == 2    \* largest sample_each tried
MaxAddCalls   == 3    \* calls of add_message in a behaviour
MaxUserId     == 3    \* largest user id handed out
MaxDay        == 1    \* the last calendar date (the first is 0)

(***************************************************************************)
(* Exact rational arithmetic standing for Python's float arithmetic.       *)
(***************************************************************************)
RECURSIVE GCD(_, _)
GCD(a, b) == IF b = 0 THEN a ELSE GCD(b, a % b)

Abs(x) == IF x < 0 THEN -x ELSE x

\* Python's max(a, b) and min(a, b) of two ints
Max(a, b) == IF b > a THEN b ELSE a
Min(a, b) == IF a < b THEN a ELSE b

\* ZeroDivisionError: the value of a division by zero; it is absorbing.
DivError == [n |-> 0, d |-> 0]

IsError(x) == x.d = 0

Norm(n, d) ==
    IF d = 0 THEN DivError
    ELSE LET g == GCD(Abs(n), Abs(d))
             s == IF d < 0 THEN -1 ELSE 1
         IN  [n |-> (s * n) \div g, d |-> (s * d) \div g]

Rat(n)      == [n |-> n, d |-> 1]
Zero        == Rat(0)
RAdd(x, y)  == IF IsError(x) \/ IsError(y) THEN DivError
               ELSE Norm(x.n * y.d + y.n * x.d, x.d * y.d)
RMul(x, y)  == IF IsError(x) \/ IsError(y) THEN DivError
               ELSE Norm(x.n * y.n, x.d * y.d)
RDiv(x, y)  == IF IsError(x) \/ IsError(y) \/ y.n = 0 THEN DivError
               ELSE Norm(x.n * y.d, x.d * y.n)
RLess(x, y) == x.n * y.d < y.n * x.d
RLeq(x, y)  == x.n * y.d <= y.n * x.d
RMin(x, y)  == IF IsError(x) \/ IsError(y) THEN DivError
               ELSE IF RLess(y, x) THEN y ELSE x

(***************************************************************************)
(* Text: str.lower() and the substring test `keyword in lower_text`.       *)
(***************************************************************************)
UpperToLower ==
    [A |-> "a", B |-> "b", C |-> "c", D |-> "d", E |-> "e", F |-> "f",
     G |-> "g", H |-> "h", I |-> "i", J |-> "j", K |-> "k", L |-> "l",
     M |-> "m", N |-> "n", O |-> "o", P |-> "p", Q |-> "q", R |-> "r",
     S |-> "s", T |-> "t", U |-> "u", V |-> "v", W |-> "w", X |-> "x",
     Y |-> "y", Z |-> "z"]

LowerChar(c) == IF c \in DOMAIN UpperToLower THEN UpperToLower[c] ELSE c

lower(chars) == [i \in 1..Len(chars) |-> LowerChar(chars[i])]

\* Python's `k in t` for two strings
IsSubstring(k, t) ==
    \E i \in 0..(Len(t) - Len(k)) : SubSeq(t, i + 1, i + Len(k)) = k

Str(chars) == [isStr |-> TRUE, chars |-> chars]
NoneText   == [isStr |-> FALSE, chars |-> <<>>]

NEGATIVE_KEYWORDS ==
  << <<"s","c","a","m">>,
     <<"s","c","u","m">>,
     <<"u","s","e","l","e","s","s">>,
     <<"f","r","a","u","d">>,
     <<"f","a","k","e">>,
     <<"d","e","c","e","p","t","i","v","e">>,
     <<"r","i","p","o","f","f">>,
     <<"u","n","r","e","s","p","o","n","s","i","v","e">>,
     <<"b","r","o","k","e","n">>,
     <<"g","l","i","t","c","h">>,
     <<"b","u","g","g","y">>,
     <<"c","r","a","s","h">>,
     <<"m","a","l","w","a","r","e">>,
     <<"p","h","i","s","h","i","n","g">>,
     <<"s","t","e","a","l">>,
     <<"s","t","o","l","e","n">>,
     <<"l","i","e">>,
     <<"l","y","i","n","g">>,
     <<"c","h","e","a","t">>,
     <<"c","h","e","a","t","i","n","g">>,
     <<"m","i","s","l","e","a","d","i","n","g">>,
     <<"u","n","r","e","l","i","a","b","l","e">>,
     <<"w","a","s","t","e"," ","o","f"," ","t","i","m","e">>,
     <<"t","e","r","r","i","b","l","e">>,
     <<"h","o","r","r","i","b","l","e">>,
     <<"w","o","r","s","t">>,
     <<"b","a","d"," ","e","x","p","e","r","i","e","n","c","e">>,
     <<"d","o"," ","n","o","t"," ","i","n","s","t","a","l","l">>,
     <<"u","n","i","n","s","t","a","l","l">>,
     <<"d","e","l","e","t","e">>,
     <<"w","a","r","n","i","n","g">>,
     <<"b","e","w","a","r","e">>,
     <<"d","e","c","e","i","t","f","u","l">>,
     <<"u","n","t","r","u","s","t","w","o","r","t","h","y">> >>

(***************************************************************************)
(* Inputs: texts built of fragments, and the values the generic polarity   *)
(* function (TextBlob, a black box with range [-1, 1]) may return.         *)
(***************************************************************************)
Fragments ==
    { <<"s","c">>, <<"a","m">>, <<"S","c","A","M">>, <<"g","o","o","d">>,
      <<" ">>, <<"b","e","l","i","e","v","e">>,
      <<"W","a","s","t","e"," ","o","f">>, <<" ","t","i","m","e">> }

RECURSIVE Concats(_)
Concats(k) ==
    IF k = 0 THEN { <<>> }
    ELSE LET shorter == Concats(k - 1)
         IN  shorter \cup { s \o f : s \in shorter, f \in Fragments }

TextInputs == { Str(c) : c \in Concats(MaxFrags) } \cup { NoneText }

PolarityValues == { -100, -80, -50, -11, -10, -9, 0, 9, 10, 11, 50, 100 }

(***************************************************************************)
(* modules/sentiment_analyzer.py: analyze_sentiment.  tb is what           *)
(* TextBlob(text).sentiment.polarity returns if it is called; the result   *)
(* records whether it was.                                                 *)
(***************************************************************************)
\* the loop of lines 36-39: some keyword is a substring of lower_text
keyword_hit(lower_text) ==
    \E i \in 1..Len(NEGATIVE_KEYWORDS) : IsSubstring(NEGATIVE_KEYWORDS[i], lower_text)

analyze_sentiment_nolower(text, tb) ==
    IF ~text.isStr THEN [value |-> 0, textblob_called |-> FALSE]
    ELSE IF keyword_hit(text.chars)
         THEN [value |-> -80, textblob_called |-> FALSE]
         ELSE [value |-> tb, textblob_called |-> TRUE]

analyze_sentiment(text, tb) ==
    IF ~text.isStr THEN [value |-> 0, textblob_called |-> FALSE]
    ELSE LET lower_text == lower(text.chars)
         IN  IF keyword_hit(lower_text)
             THEN [value |-> -80, textblob_called |-> FALSE]
             ELSE [value |-> tb, textblob_called |-> TRUE]

(***************************************************************************)
(* config.py thresholds, in hundredths, and the two label lambdas.         *)
(***************************************************************************)
POSITIVE_THRESHOLD == 10
NEGATIVE_THRESHOLD == -10

\* config.py lines 32 and 34
MAX_REVIEWS_DEFAULT     == 200
DEFAULT_FRAUD_THRESHOLD == Rat(30)

label_direct_inclusive(p) ==
    IF p >= POSITIVE_THRESHOLD THEN "Positive"
    ELSE IF p <= NEGATIVE_THRESHOLD THEN "Negative" ELSE "Neutral"

\* main.py analyze_direct, lines 254-257
label_direct(p) ==
    IF p > POSITIVE_THRESHOLD THEN "Positive"
    ELSE IF p < NEGATIVE_THRESHOLD THEN "Negative" ELSE "Neutral"

\* main.py get_sentiment_metrics_for_comparison, line 116 (literal 0.1, -0.1)
label_comparison(p) ==
    IF p > 10 THEN "Positive"
    ELSE IF p < -10 THEN "Negative" ELSE "Neutral"

(***************************************************************************)
(* DataFrames.  A frame is [isNone, has_content, has_sentiment, rows]; a   *)
(* row is [idx, content, sentiment]: idx is its index label (unique, as    *)
(* pd.DataFrame(reviews) and sort_values leave it), content a text or      *)
(* None, sentiment a label or "NaN" (a missing or foreign value).  A       *)
(* column the frame lacks holds None / "NaN" in every row.  The 'score'    *)
(* and 'at' columns are carried through untouched and are left out.        *)
(***************************************************************************)
LabelValues == { "Positive", "Negative", "Neutral", "NaN" }

RowTexts == { NoneText, Str(<<"S","c","A","M">>), Str(<<"g","o","o","d">>) }

RangeIndex(n) == [i \in 1..n |-> i - 1]
Reversed(n)   == [i \in 1..n |-> n - i]
IndexOrders(n) == { RangeIndex(n), Reversed(n) }

NoneFrame == [isNone |-> TRUE, has_content |-> FALSE, has_sentiment |-> FALSE,
              rows |-> <<>>]

MakeFrame(hc, hs, index, contents, labels) ==
    [isNone |-> FALSE, has_content |-> hc, has_sentiment |-> hs,
     rows |-> [i \in 1..Len(index) |->
                 [idx |-> index[i], content |-> contents[i], sentiment |-> labels[i]]]]

\* compute_classification_metrics tells only Negative from the rest
ClassLabelValues == { "Positive", "Negative", "NaN" }

LabelColumns(hs, n)      == [1..n -> IF hs THEN LabelValues ELSE {"NaN"}]
ClassLabelColumns(hs, n) == [1..n -> IF hs THEN ClassLabelValues ELSE {"NaN"}]
ContentColumns(hc, n) == [1..n -> IF hc THEN RowTexts ELSE {NoneText}]

\* app_details: None, or a dict whose 'score' is absent/None or a 0-5 rating
NoDetails == [isNone |-> TRUE, has_score |-> FALSE, score |-> Zero]
AppDetailsValues ==
    { NoDetails, [isNone |-> FALSE, has_score |-> FALSE, score |-> Zero] } \cup
    { [isNone |-> FALSE, has_score |-> TRUE, score |-> s] :
        s \in { Zero, Norm(9, 2), Rat(5) } }

(***************************************************************************)
(* modules/sentiment_analyzer.py: calculate_sentiment_metrics.             *)
(***************************************************************************)
\* sentiment_counts.get(label, 0): value_counts() drops NaN
sentiment_count(df, label) ==
    Cardinality({ i \in 1..Len(df.rows) : df.rows[i].sentiment = label })

percentage_unguarded(count, total) == RMul(RDiv(Rat(count), Rat(total)), Rat(100))

\* (count / total_reviews) * 100 if total_reviews > 0 else 0      lines 58-60
percentage(count, total) ==
    IF total > 0 THEN RMul(RDiv(Rat(count), Rat(total)), Rat(100)) ELSE Zero

positive_pct(df) == percentage(sentiment_count(df, "Positive"), Len(df.rows))
negative_pct(df) == percentage(sentiment_count(df, "Negative"), Len(df.rows))

neutral_pct_copied(df) == percentage(sentiment_count(df, "Negative"), Len(df.rows))

neutral_pct(df) == percentage(sentiment_count(df, "Neutral"), Len(df.rows))

\* line 63; df is not read
playstore_score(df, app_details) ==
    IF ~app_details.isNone /\ app_details.has_score
    THEN RMul(app_details.score, Rat(20)) ELSE Zero

app_rating_score_full_credit(df) ==
    LET pos == positive_pct(df)
        neu == neutral_pct(df)
    IN  IF sentiment_count(df, "Positive") + sentiment_count(df, "Negative")
             + sentiment_count(df, "Neutral") > 0
        THEN RMin(Rat(100), RAdd(pos, neu))
        ELSE Zero

\* lines 66-73
app_rating_score(df) ==
    LET pos == positive_pct(df)
        neg == negative_pct(df)
        neu == neutral_pct(df)
        total_sentiment_reviews ==
            sentiment_count(df, "Positive") + sentiment_count(df, "Negative")
              + sentiment_count(df, "Neutral")
        pos_score_calc ==
            RAdd(pos, IF RLess(Zero, RAdd(pos, neg))
                      THEN RMul(neu, RDiv(pos, RAdd(pos, neg)))
                      ELSE Zero)
    IN  IF total_sentiment_reviews > 0 THEN RMin(Rat(100), pos_score_calc) ELSE Zero

\* lines 55-75: what the call returns, or the exception it raises
calculate_sentiment_metrics(df, app_details) ==
    IF df.isNone THEN [raised |-> "TypeError"]
    ELSE IF ~df.has_sentiment THEN [raised |-> "KeyError"]
    ELSE LET out == [raised |-> "none",
                     positive_pct |-> positive_pct(df),
                     negative_pct |-> negative_pct(df),
                     neutral_pct |-> neutral_pct(df),
                     app_rating_score |-> app_rating_score(df),
                     playstore_score |-> playstore_score(df, app_details)]
         IN  IF \/ IsError(out.positive_pct) \/ IsError(out.negative_pct)
                \/ IsError(out.neutral_pct) \/ IsError(out.app_rating_score)
                \/ IsError(out.playstore_score)
             THEN [raised |-> "ZeroDivisionError"]
             ELSE out

(***************************************************************************)
(* modules/sentiment_analyzer.py: compute_classification_metrics.          *)
(***************************************************************************)
\* lines 137-141
gt_negative(text) ==
    IF ~text.isStr THEN FALSE ELSE keyword_hit(lower(text.chars))

\* Series.fillna(''): a missing text becomes the empty string
fillna_text(text) == IF text.isStr THEN text ELSE Str(<<>>)

\* str(x) of a cell: str(None) is 'None', str(nan) is 'nan'
str_text(text)   == IF text.isStr THEN text ELSE Str(<<"N","o","n","e">>)
str_label(label) == IF label = "NaN" THEN "nan" ELSE label

\* lines 143-144: the two boolean Series, one entry per row
y_true(df) ==
    [i \in 1..Len(df.rows) |-> gt_negative(fillna_text(df.rows[i].content))]
y_pred(df) ==
    [i \in 1..Len(df.rows) |->
        (IF df.rows[i].sentiment = "NaN" THEN "" ELSE df.rows[i].sentiment) = "Negative"]

fn_mask_copied(yt, yp) == [i \in DOMAIN yt |-> yt[i] /\ yp[i]]

\* lines 146-149
tp_mask(yt, yp) == [i \in DOMAIN yt |-> yt[i] /\ yp[i]]
tn_mask(yt, yp) == [i \in DOMAIN yt |-> ~yt[i] /\ ~yp[i]]
fp_mask(yt, yp) == [i \in DOMAIN yt |-> ~yt[i] /\ yp[i]]
fn_mask(yt, yp) == [i \in DOMAIN yt |-> yt[i] /\ ~yp[i]]

\* int(mask.sum()), lines 151-154
mask_sum(mask) == Cardinality({ i \in DOMAIN mask : mask[i] })

\* lines 156-160
accuracy(tp, tn, fp, fn) ==
    IF tp + tn + fp + fn > 0 THEN RDiv(Rat(tp + tn), Rat(tp + tn + fp + fn)) ELSE Zero

precision_inverted(tp, fp) ==
    IF tp + fp > 0 THEN RDiv(Rat(fp), Rat(tp + fp)) ELSE Zero

precision(tp, fp) ==
    IF tp + fp > 0 THEN RDiv(Rat(tp), Rat(tp + fp)) ELSE Zero

recall(tp, fn) ==
    IF tp + fn > 0 THEN RDiv(Rat(tp), Rat(tp + fn)) ELSE Zero

f1(p, r) ==
    IF RLess(Zero, RAdd(p, r)) THEN RDiv(RMul(RMul(Rat(2), p), r), RAdd(p, r)) ELSE Zero

\* filtered_df[mask]: the rows of the mask, in frame order
masked(df, mask) ==
    LET upto[k \in 0..Len(df.rows)] ==
            IF k = 0 THEN <<>>
            ELSE IF mask[k] THEN Append(upto[k - 1], df.rows[k]) ELSE upto[k - 1]
    IN  upto[Len(df.rows)]

\* DataFrame.head(n), n >= 0
head(rows, n) == SubSeq(rows, 1, IF n < Len(rows) THEN n ELSE Len(rows))

\* .index.tolist()
index_tolist(rows) == [k \in 1..Len(rows) |-> rows[k].idx]

iloc(df, i) == df.rows[i + 1]

\* filtered_df.loc[i]: the row labelled i (labels are unique)
loc(df, i) == CHOOSE row \in { df.rows[k] : k \in 1..Len(df.rows) } : row.idx = i

\* lines 170-176 ('score' and 'at' are copied from the row as they are)
example(row) ==
    [content |-> str_text(row.content),
     predicted |-> str_label(row.sentiment),
     contains_negative_keyword |-> gt_negative(row.content)]

\* lines 166-176 for one category
examples_of(df, mask, sample_each) ==
    LET idxs == index_tolist(head(masked(df, mask), sample_each))
    IN  [k \in 1..Len(idxs) |-> example(loc(df, idxs[k]))]

\* the dict of lines 130-134 and 189-193
zero_metrics ==
    [accuracy |-> Zero, precision |-> Zero, recall |-> Zero, f1 |-> Zero,
     confusion |-> [tp |-> 0, tn |-> 0, fp |-> 0, fn |-> 0],
     examples |-> [tp |-> <<>>, tn |-> <<>>, fp |-> <<>>, fn |-> <<>>]]

\* lines 128-193; a KeyError or ZeroDivisionError ends in the outer except
compute_classification_metrics(df, sample_each) ==
    IF df.isNone \/ Len(df.rows) = 0 THEN zero_metrics
    ELSE IF ~df.has_content \/ ~df.has_sentiment THEN zero_metrics
    ELSE LET yt == y_true(df)
             yp == y_pred(df)
             masks == [tp |-> tp_mask(yt, yp), tn |-> tn_mask(yt, yp),
                       fp |-> fp_mask(yt, yp), fn |-> fn_mask(yt, yp)]
             tp == mask_sum(masks.tp)
             tn == mask_sum(masks.tn)
             fp == mask_sum(masks.fp)
             fn == mask_sum(masks.fn)
             p  == precision(tp, fp)
             r  == recall(tp, fn)
             acc == accuracy(tp, tn, fp, fn)
             f  == f1(p, r)
         IN  IF IsError(acc) \/ IsError(p) \/ IsError(r) \/ IsError(f)
             THEN zero_metrics
             ELSE [accuracy |-> acc, precision |-> p, recall |-> r, f1 |-> f,
                   confusion |-> [tp |-> tp, tn |-> tn, fp |-> fp, fn |-> fn],
                   examples |-> [name \in {"tp", "tn", "fp", "fn"} |->
                                   examples_of(df, masks[name], sample_each)]]

(***************************************************************************)
(* file_store.py: messages.json.  A message's timestamp is the number of   *)
(* the call that built it (datetime.now() differs from call to call).      *)
(***************************************************************************)
\* the request threads that call add_message
\* two requests of one user that the server handles at the same time
Requests == { "r1", "r2" }

Callers == { "a", "b" }

\* the arguments the routes pass: auth.contact_admin (a user writes, no
\* admin_id) and admin.send_message (an admin writes to a user)
MessageArgs ==
    { [user_id |-> 2, is_from_admin |-> FALSE, admin_id |-> 0, content |-> "help"],
      [user_id |-> 2, is_from_admin |-> TRUE,  admin_id |-> 1, content |-> "done"],
      [user_id |-> 3, is_from_admin |-> FALSE, admin_id |-> 0, content |-> "help"] }

\* line 293: max([msg.get('id', 0) for msg in messages], default=0) + 1
RECURSIVE max_id(_)
max_id(records) ==
    IF records = <<>> THEN 0
    ELSE Max(records[Len(records)].id, max_id(SubSeq(records, 1, Len(records) - 1)))

next_message_id(msgs) == max_id(msgs) + 1

\* lines 295-303
new_message(message_id, args, now) ==
    [id |-> message_id, user_id |-> args.user_id, admin_id |-> args.admin_id,
     content |-> args.content, timestamp |-> now,
     is_from_admin |-> args.is_from_admin, is_read |-> FALSE]

saved_file_appending(file, local) == file \o <<local[Len(local)]>>

\* save_messages, lines 278-286: open(MESSAGES_FILE, 'w') and json.dump of the
\* caller's list; what the file held is gone
saved_file(file, local) == local

(***************************************************************************)
(* file_store.py: users.json, a list of user records in file order.  Of a  *)
(* record the model keeps id, username, email, is_admin, is_main_admin,    *)
(* is_verified, the three e-mail counters and created_at (a reading of the *)
(* wall clock); a date is a day number, NoDate is None.  A function that   *)
(* writes the file returns its result and the new list.                    *)
(***************************************************************************)
NoDate == 0 - 1

\* Python's None where a user record is expected
None == [id |-> 0]

\* the position of the first record a `for user in users` loop stops at
First(indexes) ==
    IF indexes = {} THEN 0
    ELSE CHOOSE i \in indexes : \A j \in indexes : i <= j

\* lines 56-62
get_user_by_id(us, user_id) ==
    LET i == First({ k \in 1..Len(us) : us[k].id = user_id })
    IN  IF i = 0 THEN None ELSE us[i]

\* lines 64-70
get_user_by_username(us, username) ==
    LET i == First({ k \in 1..Len(us) : us[k].username = username })
    IN  IF i = 0 THEN None ELSE us[i]

\* lines 72-78
get_user_by_email(us, email_address) ==
    LET i == First({ k \in 1..Len(us) : us[k].email = email_address })
    IN  IF i = 0 THEN None ELSE us[i]

\* lines 94-110 and 113-121: the record of a new user; an admin is marked
\* main when no stored admin is
new_user(us, user_id, username, email_address, is_admin, now) ==
    [id |-> user_id, username |-> username, email |-> email_address,
     is_admin |-> is_admin,
     is_main_admin |->
         is_admin /\ ~\E i \in 1..Len(us) : us[i].is_admin /\ us[i].is_main_admin,
     is_verified |-> FALSE,
     email_sent_today |-> 0, email_sent_total |-> 0,
     last_email_sent_date |-> NoDate,
     created_at |-> now]

create_user_username_only(us, username, email_address, is_admin, now) ==
    IF get_user_by_username(us, username) # None
    THEN [ret |-> None, users |-> us]
    ELSE LET user == new_user(us, max_id(us) + 1, username, email_address,
                              is_admin, now)
         IN  [ret |-> user, users |-> Append(us, user)]

\* create_user, lines 80-127
create_user(us, username, email_address, is_admin, now) ==
    IF get_user_by_username(us, username) # None
    THEN [ret |-> None, users |-> us]
    ELSE IF get_user_by_email(us, email_address) # None
    THEN [ret |-> None, users |-> us]
    ELSE LET user == new_user(us, max_id(us) + 1, username, email_address,
                              is_admin, now)
         IN  [ret |-> user, users |-> Append(us, user)]

\* delete_user, lines 477-481
delete_user(us, user_id) ==
    LET Keep(u) == u.id # user_id
    IN  SelectSeq(us, Keep)

\* set_user_admin, lines 372-383: the first record with the id
set_user_admin(us, user_id, is_admin) ==
    LET i == First({ k \in 1..Len(us) : us[k].id = user_id })
    IN  IF i = 0 THEN us ELSE [us EXCEPT ![i].is_admin = is_admin]

\* set_user_verified, lines 385-396
set_user_verified(us, user_id, verified) ==
    LET i == First({ k \in 1..Len(us) : us[k].id = user_id })
    IN  IF i = 0 THEN us ELSE [us EXCEPT ![i].is_verified = verified]

\* sorted(admins, key=created_at)[0]: the admin with the least created_at,
\* the first of them in file order (the sort is stable)
earliest_admin(us) ==
    CHOOSE i \in 1..Len(us) :
        /\ us[i].is_admin
        /\ \A j \in 1..Len(us) :
              us[j].is_admin =>
                  \/ us[i].created_at < us[j].created_at
                  \/ us[i].created_at = us[j].created_at /\ i <= j

\* lines 507-516: the choice is marked, every other mark is removed
RECURSIVE mark_main(_, _)
mark_main(us, main_id) ==
    IF us = <<>> THEN <<>>
    ELSE <<[Head(us) EXCEPT !.is_main_admin = (Head(us).id = main_id)]>>
         \o mark_main(Tail(us), main_id)

get_main_admin_unsaved(us) ==
    LET marked == First({ k \in 1..Len(us) :
                            us[k].is_admin /\ us[k].is_main_admin })
        admins == { k \in 1..Len(us) : us[k].is_admin }
    IN  IF marked # 0
        THEN [ret |-> us[marked], users |-> us]
        ELSE IF admins = {}
        THEN [ret |-> None, users |-> us]
        ELSE [ret |-> us[earliest_admin(us)], users |-> us]

\* get_main_admin, lines 484-520; the record returned is the one of the list
\* that was saved, mark included
get_main_admin(us) ==
    LET marked == First({ k \in 1..Len(us) :
                            us[k].is_admin /\ us[k].is_main_admin })
        admins == { k \in 1..Len(us) : us[k].is_admin }
    IN  IF marked # 0
        THEN [ret |-> us[marked], users |-> us]
        ELSE IF admins = {}
        THEN [ret |-> None, users |-> us]
        ELSE LET m == earliest_admin(us)
                 saved == mark_main(us, us[m].id)
             IN  [ret |-> saved[m], users |-> saved]

\* set_main_admin, lines 523-537
set_main_admin(us, user_id) == mark_main(us, user_id)

can_user_send_email_inclusive(us, user_id, date) ==
    LET i == First({ k \in 1..Len(us) : us[k].id = user_id })
    IN  IF i = 0 THEN FALSE
        ELSE LET email_today == IF us[i].last_email_sent_date # date
                                THEN 0 ELSE us[i].email_sent_today
             IN  IF us[i].is_verified THEN email_today <= 10
                 ELSE us[i].email_sent_total <= 50

\* can_user_send_email, lines 399-422; date is datetime.now().date()
can_user_send_email(us, user_id, date) ==
    LET i == First({ k \in 1..Len(us) : us[k].id = user_id })
    IN  IF i = 0 THEN FALSE
        ELSE LET email_today == IF us[i].last_email_sent_date # date
                                THEN 0 ELSE us[i].email_sent_today
             IN  IF us[i].is_verified THEN email_today < 10
                 ELSE us[i].email_sent_total < 50

\* increment_user_email_counters, lines 425-443
increment_user_email_counters(us, user_id, date) ==
    LET i == First({ k \in 1..Len(us) : us[k].id = user_id })
    IN  IF i = 0 THEN us
        ELSE [us EXCEPT
                ![i].email_sent_today =
                    (IF us[i].last_email_sent_date # date THEN 0 ELSE @) + 1,
                ![i].email_sent_total = @ + 1,
                ![i].last_email_sent_date = date]

\* app.py lines 91-107: the default admin, created when no admin is stored
DefaultAdmin == create_user(<<>>, "admin", "admin@example.com", TRUE, 0)

\* what register's form and create_admin.py's arguments carry
Usernames == { "ann", "bob" }
Emails    == { "ann@example.com", "bob@example.com" }

\* readings of the wall clock at a create_user (it may repeat or step back)
Timestamps == 0..1

\* the account of a stored user: `created` and `deleted` count the messages
\* added before; an account still stored has deleted = NoDate
account(user_id, created) ==
    [id |-> user_id, created |-> created, deleted |-> NoDate]

\* the accounts of the users a deployment starts with
RECURSIVE stored_accounts(_)
stored_accounts(us) ==
    IF us = <<>> THEN <<>>
    ELSE Append(stored_accounts(SubSeq(us, 1, Len(us) - 1)),
                account(us[Len(us)].id, 0))

(***************************************************************************)
(* The state after construction, and the calls of the pure functions: one  *)
(* call per behaviour, made from the idle state.                           *)
(***************************************************************************)
NoPayload == [saved |-> FALSE]

InitButSession ==
    /\ call = [fn |-> "none"]
    /\ ret = [raised |-> "none"]
    /\ page = [rendered |-> FALSE]
    /\ email = [sent |-> FALSE]
    /\ pc = "idle"
    /\ max_reviews = 0
    /\ all_reviews = <<>>
    /\ continuation_token = 0
    /\ provider_pages = <<>>
    /\ provider_raised = FALSE
    /\ requested = <<>>
    /\ provider_tokens = <<>>
    /\ fetch_ret = [returned |-> FALSE]
    /\ last_fraud_threshold = [present |-> FALSE]
    /\ last_max_reviews = [present |-> FALSE]
    /\ search_req = [made |-> FALSE]
    /\ compare_apps = <<>>
    /\ compare_req = [op |-> "none"]
    /\ anon_email_sent_count = 0
    /\ mail_req = [made |-> FALSE]
    /\ today = 0
    /\ store_ret = [fn |-> "none"]
    /\ deleters = [actor \in 1..MaxUserId |-> [pc |-> "idle"]]
    /\ sent_today = [user_id \in 1..MaxUserId |-> 0]
    /\ anon_sent = 0
    /\ senders = [r \in Requests |-> "idle"]
    /\ messages = <<>>
    /\ adders = [p \in Callers |-> [pc |-> "idle"]]
    /\ msg_clock = [calls |-> 0, saves |-> 0]

\* a fresh session of a fresh deployment
Init ==
    /\ InitButSession
    /\ payload = NoPayload
    /\ users = DefaultAdmin.users
    /\ accounts = stored_accounts(users)
    /\ current_user = 0

CallAnalyzeSentiment ==
    /\ call.fn = "none"
    /\ \E text \in TextInputs, tb \in PolarityValues :
            /\ call' = [fn |-> "analyze_sentiment", text |-> text, textblob |-> tb]
            /\ ret' = analyze_sentiment(text, tb)
            /\ UNCHANGED <<riskVars, fetchVars, webVars>>

CallLabelDirect ==
    /\ call.fn = "none"
    /\ \E p \in PolarityValues :
            /\ call' = [fn |-> "label_direct", polarity |-> p]
            /\ ret' = [label |-> label_direct(p)]
            /\ UNCHANGED <<riskVars, fetchVars, webVars>>

CallLabelComparison ==
    /\ call.fn = "none"
    /\ \E p \in PolarityValues :
            /\ call' = [fn |-> "label_comparison", polarity |-> p]
            /\ ret' = [label |-> label_comparison(p)]
            /\ UNCHANGED <<riskVars, fetchVars, webVars>>

DoCalculateSentimentMetrics(df, app_details) ==
    /\ call' = [fn |-> "calculate_sentiment_metrics", df |-> df,
                app_details |-> app_details]
    /\ ret' = calculate_sentiment_metrics(df, app_details)
    /\ UNCHANGED <<riskVars, fetchVars, webVars>>

\* frames as calculate_sentiment_metrics reads them: the sentiment column and len
CallCalculateSentimentMetrics ==
    /\ call.fn = "none"
    /\ \E n \in 0..MaxRows, hs \in BOOLEAN, app_details \in AppDetailsValues :
         \E labels \in LabelColumns(hs, n) :
            DoCalculateSentimentMetrics(
                MakeFrame(TRUE, hs, RangeIndex(n),
                          [i \in 1..n |-> Str(<<"g","o","o","d">>)], labels),
                app_details)

DoComputeClassificationMetrics(df, sample_each) ==
    /\ call' = [fn |-> "compute_classification_metrics", df |-> df,
                sample_each |-> sample_each]
    /\ ret' = compute_classification_metrics(df, sample_each)
    /\ UNCHANGED <<riskVars, fetchVars, webVars>>

\* None, or a frame with or without its content and sentiment columns
CallComputeClassificationMetrics ==
    /\ call.fn = "none"
    /\ \E sample_each \in 0..MaxSampleEach :
         \/ DoComputeClassificationMetrics(NoneFrame, sample_each)
         \/ \E n \in 0..MaxRows, hc \in BOOLEAN, hs \in BOOLEAN :
              \E index \in IndexOrders(n), contents \in ContentColumns(hc, n),
                 labels \in ClassLabelColumns(hs, n) :
                 DoComputeClassificationMetrics(
                     MakeFrame(hc, hs, index, contents, labels), sample_each)

NextFn ==
    \/ CallAnalyzeSentiment
    \/ CallLabelDirect
    \/ CallLabelComparison
    \/ CallCalculateSentimentMetrics
    \/ CallComputeClassificationMetrics

SpecFn == Init /\ [][NextFn]_vars

(***************************************************************************)
(* main.py analyze_direct, lines 250-278: the reviews are given a polarity *)
(* and a label, then calculate_sentiment_metrics and                       *)
(* compute_classification_metrics read the frame.  The polarity TextBlob   *)
(* would give a review is an input, like the review's text.                *)
(***************************************************************************)
\* sentiment_analyzer.py line 117: sample_each when the caller passes none
SAMPLE_EACH_DEFAULT == 5

\* the polarities at the two thresholds and just beyond them
NearThresholds ==
    { p \in PolarityValues :
        \/ p \in { NEGATIVE_THRESHOLD, NEGATIVE_THRESHOLD - 1 }
        \/ p \in { POSITIVE_THRESHOLD, POSITIVE_THRESHOLD + 1 } }

\* lines 253-257: the polarity and sentiment columns
sentiment_column(contents, textblob) ==
    [i \in 1..Len(contents) |->
        label_direct(analyze_sentiment(contents[i], textblob[i]).value)]

\* the frame of lines 250-257; without reviews it has no sentiment column
analyze_direct_frame(index, contents, textblob) ==
    MakeFrame(TRUE, Len(contents) > 0, index, contents,
              IF Len(contents) > 0 THEN sentiment_column(contents, textblob)
              ELSE <<>>)

\* lines 272-288: the classification metrics of the page, unless
\* calculate_sentiment_metrics has ended the request before
analyze_direct_classification(df) ==
    LET metrics == calculate_sentiment_metrics(df, NoDetails)
    IN  IF metrics.raised # "none" THEN [raised |-> metrics.raised]
        ELSE [raised |-> "none",
              classification_metrics |->
                  compute_classification_metrics(df, SAMPLE_EACH_DEFAULT)]

CallAnalyzeDirectClassification ==
    /\ call.fn = "none"
    /\ \E n \in 0..MaxRows :
         \E index \in IndexOrders(n), contents \in [1..n -> RowTexts],
            textblob \in [1..n -> NearThresholds] :
            \E df \in { analyze_direct_frame(index, contents, textblob) } :
               /\ call' = [fn |-> "analyze_direct", df |-> df,
                           textblob |-> textblob]
               /\ ret' = analyze_direct_classification(df)
    /\ UNCHANGED <<riskVars, fetchVars, webVars>>

NextClassification == CallAnalyzeDirectClassification

SpecClassification == Init /\ [][NextClassification]_vars

(***************************************************************************)
(* add_message in two steps: lines 290-305 (load_messages, the id, the     *)
(* message, the append to the caller's list) and lines 306-308 (the save   *)
(* and the return).                                                        *)
(***************************************************************************)
AddMessageLoad(p) ==
    /\ adders[p].pc \in { "idle", "done" }
    /\ msg_clock.calls < MaxAddCalls
    /\ \E args \in MessageArgs :
         LET message == new_message(next_message_id(messages), args,
                                    msg_clock.calls + 1)
         IN  adders' = [adders EXCEPT ![p] =
                          [pc |-> "loaded",
                           messages |-> Append(messages, message),
                           message |-> message,
                           loaded_version |-> msg_clock.saves]]
    /\ msg_clock' = [msg_clock EXCEPT !.calls = @ + 1]
    /\ UNCHANGED <<messages, accounts, fnVars, riskVars, fetchVars, searchVars,
                   compareVars, mailVars, storeVars>>

AddMessageSave(p) ==
    /\ adders[p].pc = "loaded"
    /\ messages' = saved_file(messages, adders[p].messages)
    /\ msg_clock' = [msg_clock EXCEPT !.saves = @ + 1]
    /\ adders' = [adders EXCEPT ![p] =
                     [pc |-> "done",
                      messages |-> adders[p].messages,
                      message |-> adders[p].message,
                      loaded_version |-> adders[p].loaded_version,
                      saved_version |-> msg_clock.saves + 1,
                      ret |-> adders[p].message]]
    /\ UNCHANGED <<accounts, fnVars, riskVars, fetchVars, searchVars,
                   compareVars, mailVars, storeVars>>

NextMessages == \E p \in Callers : AddMessageLoad(p) \/ AddMessageSave(p)

SpecMessages == Init /\ [][NextMessages]_vars

(***************************************************************************)
(* file_store.py create_user, delete_user and add_message called one at a  *)
(* time, each from its load to its save, and the two readers of a user's   *)
(* messages.  `accounts` keeps what the files forget: which ids have been  *)
(* given out, and when an account was deleted.                             *)
(***************************************************************************)
MaxAccounts == 3    \* accounts made in a behaviour, the first ones included

\* get_user_messages line 314: sort(key=timestamp, reverse=True), which
\* keeps the order of messages with equal timestamps
RECURSIVE newest_first(_)
newest_first(msgs) ==
    IF msgs = <<>> THEN <<>>
    ELSE LET newest == First({ i \in 1..Len(msgs) :
                            \A j \in 1..Len(msgs) :
                                msgs[j].timestamp <= msgs[i].timestamp })
         IN  <<msgs[newest]>> \o
             newest_first(SubSeq(msgs, 1, newest - 1) \o
                          SubSeq(msgs, newest + 1, Len(msgs)))

\* line 310: limit: int = 50
DEFAULT_LIMIT == 50

\* get_user_messages, lines 310-315
get_user_messages(msgs, user_id) ==
    LET Mine(msg) == msg.user_id = user_id
        user_messages == newest_first(SelectSeq(msgs, Mine))
    IN  SubSeq(user_messages, 1, Min(DEFAULT_LIMIT, Len(user_messages)))

\* get_unread_message_count, lines 343-347
get_unread_message_count(msgs, user_id) ==
    LET Unread(msg) == msg.user_id = user_id /\ ~msg.is_read
    IN  Len(SelectSeq(msgs, Unread))

\* the accounts after delete_user(user_id)
RECURSIVE accounts_deleting(_, _, _)
accounts_deleting(accs, user_id, now) ==
    IF accs = <<>> THEN <<>>
    ELSE LET last == accs[Len(accs)]
         IN  Append(accounts_deleting(SubSeq(accs, 1, Len(accs) - 1),
                                      user_id, now),
                    IF last.id = user_id /\ last.deleted = NoDate
                    THEN [id |-> last.id, created |-> last.created,
                          deleted |-> now]
                    ELSE last)

CreateAccount(username, email_address, now) ==
    /\ Len(accounts) < MaxAccounts
    /\ max_id(users) < MaxUserId
    /\ \E r \in { create_user(users, username, email_address, FALSE, now) } :
         /\ users' = r.users
         /\ store_ret' = [fn |-> "create_user", username |-> username,
                          email |-> email_address, ret |-> r.ret]
         /\ accounts' = IF r.ret = None THEN accounts
                        ELSE Append(accounts, account(r.ret.id, Len(messages)))
    /\ UNCHANGED <<messages, adders, msg_clock, deleters, fnVars, riskVars,
                   fetchVars, searchVars, compareVars, mailVars>>

DeleteAccount(user_id) ==
    /\ users' = delete_user(users, user_id)
    /\ store_ret' = [fn |-> "delete_user", user_id |-> user_id]
    /\ accounts' = accounts_deleting(accounts, user_id, Len(messages))
    /\ UNCHANGED <<messages, adders, msg_clock, deleters, fnVars, riskVars,
                   fetchVars, searchVars, compareVars, mailVars>>

\* add_message, lines 288-308, from load_messages to save_messages
AddMessage(args) ==
    /\ msg_clock.calls < MaxAddCalls
    /\ messages' = saved_file(messages,
                       Append(messages,
                              new_message(next_message_id(messages), args,
                                          msg_clock.calls + 1)))
    /\ msg_clock' = [calls |-> msg_clock.calls + 1,
                     saves |-> msg_clock.saves + 1]
    /\ UNCHANGED <<adders, accounts, fnVars, riskVars, fetchVars, searchVars,
                   compareVars, mailVars, storeVars>>

NextAccounts ==
    \/ \E username \in Usernames, email_address \in Emails, now \in Timestamps :
          CreateAccount(username, email_address, now)
    \/ \E user_id \in 1..MaxUserId : DeleteAccount(user_id)
    \/ \E args \in MessageArgs : AddMessage(args)

SpecAccounts == Init /\ [][NextAccounts]_vars

(***************************************************************************)
(* main.py search_apps_route: the analysis settings of the search form.    *)
(* A form field is a number or a text float()/int() cannot parse (a        *)
(* missing field reads as the default, like an unparsable one); a session  *)
(* key is present with a value, or absent.                                 *)
(***************************************************************************)
Unparsable    == [parsed |-> FALSE]
Number(v)     == [parsed |-> TRUE, value |-> v]

NotInSession  == [present |-> FALSE]
InSession(v)  == [present |-> TRUE, value |-> v]

\* session.get(key, default)
session_get(entry, default) == IF entry.present THEN entry.value ELSE default

\* Python's max(x, y) of two floats: y only when y > x
RMax(x, y) == IF RLess(x, y) THEN y ELSE x

\* lines 152-155
int_or_default(field) ==
    IF field.parsed THEN field.value ELSE MAX_REVIEWS_DEFAULT

\* lines 156-159
float_or_default(field) ==
    IF field.parsed THEN field.value ELSE DEFAULT_FRAUD_THRESHOLD

\* line 213: max(10, min(max_reviews, 1000))
clamp_max_reviews(n) == Max(10, Min(n, 1000))

clamp_fraud_threshold_upper_only(x) == RMin(x, Rat(100))

\* line 214: max(1.0, min(fraud_threshold, 100.0))
clamp_fraud_threshold(x) == RMax(Rat(1), RMin(x, Rat(100)))

\* the forms submitted: (fraud_threshold, max_reviews)
SearchForms ==
    { [fraud_threshold |-> Number(Rat(-5)),    max_reviews |-> Number(5)],
      [fraud_threshold |-> Number(Norm(1, 2)), max_reviews |-> Number(10)],
      [fraud_threshold |-> Number(Rat(50)),    max_reviews |-> Number(500)],
      [fraud_threshold |-> Number(Rat(100)),   max_reviews |-> Number(1000)],
      [fraud_threshold |-> Number(Rat(150)),   max_reviews |-> Number(2000)],
      [fraud_threshold |-> Unparsable,         max_reviews |-> Unparsable] }

\* app_input: nothing, a free-text name, or a text that reads as an app id
\* (the test of line 169)
QueryKinds == { "empty", "name", "app_id" }

\* lines 211-220: the settings are stored and the pointer to the last
\* analysis is dropped
StoreSearchSettings(form) ==
    /\ last_max_reviews' =
           InSession(clamp_max_reviews(int_or_default(form.max_reviews)))
    /\ last_fraud_threshold' =
           InSession(clamp_fraud_threshold(float_or_default(form.fraud_threshold)))
    /\ payload' = NoPayload

\* search_apps_route.  An empty query returns at line 163; an app id whose
\* details are found redirects to analyze_direct at line 180, before the
\* settings are stored; every other query runs the search and stores them.
\* The browser leaves the results page it showed.  A behaviour follows the
\* session's searches and analyses up to the first report it sends.
SearchAppsRoute ==
    /\ ~email.sent
    /\ \E form \in SearchForms, query \in QueryKinds :
         \/ /\ query = "empty"
            /\ search_req' = [made |-> TRUE, form |-> form, path |-> "empty"]
            /\ UNCHANGED <<last_max_reviews, last_fraud_threshold, payload>>
         \/ /\ query = "app_id"
            /\ search_req' = [made |-> TRUE, form |-> form, path |-> "direct"]
            /\ UNCHANGED <<last_max_reviews, last_fraud_threshold, payload>>
         \/ /\ query = "app_id"
            /\ search_req' = [made |-> TRUE, form |-> form, path |-> "not_found"]
            /\ StoreSearchSettings(form)
         \/ /\ query = "name"
            /\ search_req' = [made |-> TRUE, form |-> form, path |-> "search"]
            /\ StoreSearchSettings(form)
    /\ page' = [rendered |-> FALSE]
    /\ UNCHANGED <<email, fnVars, fetchVars, compareVars, mailVars, storeVars,
                   msgVars>>

(***************************************************************************)
(* The risk decision: main.py analyze_direct renders the page and saves    *)
(* the analysis file; send_email_report reads that file back and           *)
(* send_analysis_email builds the body.                                    *)
(***************************************************************************)
\* main.py line 342
risk_detected(neg_pct, fraud_threshold) == RLess(fraud_threshold, neg_pct)

\* main.py line 343
risk_message(neg_pct, fraud_threshold) ==
    IF RLess(fraud_threshold, neg_pct) THEN "RISK_WARNING_SHORT" ELSE "No risk indicators"

email_risk_section_inclusive(neg_pct, fraud_threshold) ==
    IF RLeq(fraud_threshold, neg_pct) THEN "Risk Alert" ELSE "No Significant Risk"

\* email_sender.py lines 121-136
email_risk_section(neg_pct, fraud_threshold) ==
    IF RLess(fraud_threshold, neg_pct) THEN "Risk Alert" ELSE "No Significant Risk"

\* analyze_direct for an app with n reviews, `negatives` of them labelled
\* Negative (the others Positive: only negative_pct is read here); the
\* threshold and the review limit are the session's (lines 239-240).  The app's
\* details may not be found (line 243), and the dump of the analysis file may
\* fail (lines 324-336), leaving the session's pointer where it was.  With no
\* reviews the frame has no sentiment column, the KeyError of
\* calculate_sentiment_metrics ends in the handler's except and nothing is
\* rendered or saved.
AnalyzeDirect ==
    /\ ~email.sent
    /\ \/ /\ page' = [rendered |-> FALSE]
          /\ UNCHANGED payload
       \/ \E n \in 0..MaxRows, save_ok \in BOOLEAN :
           \E negatives \in 0..n :
             \E fraud_threshold \in { session_get(last_fraud_threshold,
                                                  DEFAULT_FRAUD_THRESHOLD) },
                metrics \in { calculate_sentiment_metrics(
                                MakeFrame(TRUE, n > 0, RangeIndex(n),
                                          [i \in 1..n |-> Str(<<"g","o","o","d">>)],
                                          [i \in 1..n |-> IF i <= negatives
                                                          THEN "Negative"
                                                          ELSE "Positive"]),
                                NoDetails) } :
               IF metrics.raised # "none"
               THEN /\ page' = [rendered |-> FALSE]
                    /\ UNCHANGED payload
               ELSE /\ page' = [rendered |-> TRUE,
                                max_reviews |->
                                    session_get(last_max_reviews, MAX_REVIEWS_DEFAULT),
                                negative_pct |-> metrics.negative_pct,
                                fraud_threshold |-> fraud_threshold,
                                risk_detected |->
                                    risk_detected(metrics.negative_pct, fraud_threshold),
                                risk_message |->
                                    risk_message(metrics.negative_pct, fraud_threshold)]
                    /\ payload' = IF save_ok
                                  THEN [saved |-> TRUE,
                                        negative_pct |-> metrics.negative_pct,
                                        fraud_threshold |-> fraud_threshold]
                                  ELSE payload
    /\ UNCHANGED <<email, fnVars, fetchVars, webVars>>

(***************************************************************************)
(* The session's user (auth.py) and the e-mail quotas of                   *)
(* send_email_report.  current_user is what the user_loader of app.py      *)
(* finds for the id the session carries: a stored user, or nobody.         *)
(***************************************************************************)
\* app.py lines 64-76
is_authenticated(us, user_id) ==
    user_id # 0 /\ get_user_by_id(us, user_id) # None

\* current_user.is_admin, admin.py line 23
is_admin_user(us, user_id) ==
    is_authenticated(us, user_id) /\ get_user_by_id(us, user_id).is_admin

\* admin.verify_user_route, by the admin `actor` from a session of their own
VerifyUserRoute(actor, user_id) ==
    /\ is_admin_user(users, actor)
    /\ user_id # actor
    /\ get_user_by_id(users, user_id) # None
    /\ users' = set_user_verified(users, user_id,
                                  ~get_user_by_id(users, user_id).is_verified)
    /\ store_ret' = [fn |-> "set_user_verified", user_id |-> user_id]
    /\ UNCHANGED <<fnVars, riskVars, fetchVars, searchVars, compareVars,
                   mailVars, deleters, msgVars>>

\* midnight: the reports of the new date are counted from 0
NextDay ==
    /\ today < MaxDay
    /\ today' = today + 1
    /\ sent_today' = [user_id \in 1..MaxUserId |-> 0]
    /\ UNCHANGED <<fnVars, riskVars, fetchVars, searchVars, compareVars,
                   anon_email_sent_count, current_user, mail_req, anon_sent,
                   senders,
                   storeVars, msgVars>>

\* send_analysis_email returning True: the body that went out
email_sent_body ==
    [sent |-> TRUE,
     negative_pct |-> payload.negative_pct,
     fraud_threshold |-> payload.fraud_threshold,
     section |-> email_risk_section(payload.negative_pct, payload.fraud_threshold)]

\* main.py line 536
anon_limit_reached_after(anon_count) == anon_count > 3

anon_limit_reached(anon_count) == anon_count >= 3

\* lines 534-571, a visitor who is not logged in
SendAnonymous(smtp_ok) ==
    LET anon_count == anon_email_sent_count
        req(outcome) == [made |-> TRUE, user |-> 0, outcome |-> outcome,
                         anon_count |-> anon_count]
    IN  /\ IF anon_limit_reached(anon_count)
           THEN /\ mail_req' = req("refused")
                /\ UNCHANGED <<email, anon_email_sent_count, anon_sent>>
           ELSE IF smtp_ok
           THEN /\ mail_req' = req("sent")
                /\ email' = email_sent_body
                /\ anon_email_sent_count' = anon_count + 1
                /\ anon_sent' = anon_sent + 1
           ELSE /\ mail_req' = req("failed")
                /\ UNCHANGED <<email, anon_email_sent_count, anon_sent>>
        /\ UNCHANGED <<users, today, sent_today>>

\* lines 573-613, a logged-in user.  The date is read when the quota is
\* checked and again when the counters are written; midnight may pass in
\* between, before or after the mail goes out.  mail_req keeps, for a report
\* that went out, how many went out on that date for this user while
\* verified, this one included.
SendLoggedIn(smtp_ok) ==
    LET user_id == current_user
        user == get_user_by_id(users, user_id)
        verified_report == IF user.is_verified THEN 1 ELSE 0
        req(outcome, on_that_date) ==
            [made |-> TRUE, user |-> user_id, outcome |-> outcome,
             verified |-> user.is_verified,
             email_sent_total |-> user.email_sent_total,
             on_that_date |-> on_that_date]
    IN  /\ IF ~can_user_send_email(users, user_id, today)
           THEN /\ mail_req' = req("refused", sent_today[user_id])
                /\ UNCHANGED <<email, users, sent_today, today>>
           ELSE IF smtp_ok
           THEN /\ email' = email_sent_body
                /\ \E written_on \in { today, Min(today + 1, MaxDay) } :
                     /\ today' = written_on
                     /\ users' = increment_user_email_counters(users, user_id,
                                                               written_on)
                     /\ \E mailed_on \in { today, written_on } :
                          LET before == IF mailed_on = today
                                        THEN sent_today[user_id] ELSE 0
                              carried == [u \in 1..MaxUserId |->
                                            IF written_on = today
                                            THEN sent_today[u] ELSE 0]
                          IN  /\ mail_req' = req("sent", before + verified_report)
                              /\ sent_today' =
                                    IF mailed_on = written_on
                                    THEN [carried EXCEPT ![user_id] =
                                                         @ + verified_report]
                                    ELSE carried
           ELSE /\ mail_req' = req("failed", sent_today[user_id])
                /\ UNCHANGED <<email, users, sent_today, today>>
        /\ UNCHANGED <<anon_email_sent_count, anon_sent>>

\* send_email_report.  Without a recipient or an analysis file the request
\* is refused at line 503 (and a file that does not load, or a report that
\* cannot be built, ends it before the quota is looked at).
SendEmailReport ==
    /\ \E request_ok \in BOOLEAN, smtp_ok \in BOOLEAN :
         IF ~request_ok \/ ~payload.saved
         THEN /\ mail_req' = [made |-> TRUE, user |-> current_user,
                              outcome |-> "invalid"]
              /\ UNCHANGED <<email, anon_email_sent_count, anon_sent, users,
                             sent_today, today>>
         ELSE IF ~is_authenticated(users, current_user)
         THEN SendAnonymous(smtp_ok)
         ELSE SendLoggedIn(smtp_ok)
    /\ UNCHANGED <<page, payload, current_user, store_ret, deleters, senders,
                   fnVars,
                   fetchVars, searchVars, compareVars, msgVars>>

\* the session of a registered user who has logged in and analysed an app
InitQuota ==
    /\ InitButSession
    /\ payload = [saved |-> TRUE, negative_pct |-> Rat(50),
                  fraud_threshold |-> DEFAULT_FRAUD_THRESHOLD]
    /\ users = create_user(DefaultAdmin.users, "ann", "ann@example.com",
                           FALSE, 0).users
    /\ accounts = stored_accounts(users)
    /\ current_user = 2

NextQuota ==
    \/ \E actor \in 1..MaxUserId, user_id \in 1..MaxUserId :
          VerifyUserRoute(actor, user_id)
    \/ NextDay
    \/ SendEmailReport

SpecQuota == InitQuota /\ [][NextQuota]_vars

(***************************************************************************)
(* Two send_email_report requests of the logged-in user handled at the     *)
(* same time, main.py lines 573-613: the quota check, the mail and the     *)
(* counter update of one request are three steps, and the steps of the     *)
(* other request may come in between.  The date does not change here.      *)
(***************************************************************************)
\* line 575
SendCheck(r) ==
    /\ senders[r] = "idle"
    /\ is_authenticated(users, current_user)
    /\ IF can_user_send_email(users, current_user, today)
       THEN senders' = [senders EXCEPT ![r] = "allowed"]
       ELSE senders' = [senders EXCEPT ![r] = "refused"]
    /\ UNCHANGED <<fnVars, riskVars, fetchVars, searchVars, compareVars,
                   anon_email_sent_count, current_user, mail_req, sent_today,
                   anon_sent, today, storeVars, msgVars>>

\* lines 577-578: the refused request is answered
SendRefused(r) ==
    /\ senders[r] = "refused"
    /\ senders' = [senders EXCEPT ![r] = "idle"]
    /\ UNCHANGED <<fnVars, riskVars, fetchVars, searchVars, compareVars,
                   anon_email_sent_count, current_user, mail_req, sent_today,
                   anon_sent, today, storeVars, msgVars>>

\* lines 581-606: send_analysis_email returns True or False
SendMail(r) ==
    /\ senders[r] = "allowed"
    /\ \E sent \in BOOLEAN :
         IF sent
         THEN /\ senders' = [senders EXCEPT ![r] = "sent"]
              /\ email' = email_sent_body
              /\ sent_today' = [sent_today EXCEPT ![current_user] = @ + 1]
         ELSE /\ senders' = [senders EXCEPT ![r] = "idle"]
              /\ UNCHANGED <<email, sent_today>>
    /\ UNCHANGED <<page, payload, fnVars, fetchVars, searchVars, compareVars,
                   anon_email_sent_count, current_user, mail_req, anon_sent,
                   today, storeVars, msgVars>>

\* lines 608-610
SendIncrement(r) ==
    /\ senders[r] = "sent"
    /\ senders' = [senders EXCEPT ![r] = "idle"]
    /\ users' = increment_user_email_counters(users, current_user, today)
    /\ UNCHANGED <<fnVars, riskVars, fetchVars, searchVars, compareVars,
                   anon_email_sent_count, current_user, mail_req, sent_today,
                   anon_sent, today, store_ret, deleters, msgVars>>

\* the session of InitQuota after an admin has verified the user
InitVerified ==
    /\ InitButSession
    /\ payload = [saved |-> TRUE, negative_pct |-> Rat(50),
                  fraud_threshold |-> DEFAULT_FRAUD_THRESHOLD]
    /\ users = set_user_verified(
                   create_user(DefaultAdmin.users, "ann", "ann@example.com",
                               FALSE, 0).users, 2, TRUE)
    /\ accounts = stored_accounts(users)
    /\ current_user = 2

NextQuotaRace ==
    \E r \in Requests :
        SendCheck(r) \/ SendRefused(r) \/ SendMail(r) \/ SendIncrement(r)

SpecQuotaRace == InitVerified /\ [][NextQuotaRace]_vars

(***************************************************************************)
(* The user store as the web application and create_admin.py use it, one   *)
(* request or script run at a time.  An admin route is taken by `actor`,   *)
(* whom the user_loader finds in users.json when the request comes in.     *)
(***************************************************************************)
\* whether username or email is taken, lines 85-88
is_duplicate(us, username, email_address) ==
    \/ get_user_by_username(us, username) # None
    \/ get_user_by_email(us, email_address) # None

\* auth.register (never an admin) and create_admin.py --create [--admin]
CreateUser(username, email_address, is_admin, now) ==
    /\ is_duplicate(users, username, email_address) \/ max_id(users) < MaxUserId
    /\ \E r \in { create_user(users, username, email_address, is_admin, now) } :
         /\ users' = r.users
         /\ store_ret' = [fn |-> "create_user", username |-> username,
                          email |-> email_address, ret |-> r.ret]
    /\ UNCHANGED <<fnVars, riskVars, fetchVars, searchVars, compareVars,
                   mailVars, deleters, msgVars>>

\* admin.py line 130, negated
may_delete_anyone(actor, user_id) == TRUE

may_delete(actor, user_id) == user_id # actor

\* admin.delete_user_route
DeleteUserRoute(actor, user_id) ==
    /\ is_admin_user(users, actor)
    /\ may_delete(actor, user_id)
    /\ users' = delete_user(users, user_id)
    /\ store_ret' = [fn |-> "delete_user_route", actor |-> actor,
                     user_id |-> user_id]
    /\ UNCHANGED <<fnVars, riskVars, fetchVars, searchVars, compareVars,
                   mailVars, deleters, msgVars>>

\* admin.py lines 196-197
admin_count(us) == Cardinality({ i \in 1..Len(us) : us[i].is_admin })

\* admin.toggle_user_admin.  get_main_admin may write users.json before the
\* request is refused; `user` is the record read at line 173, before that.
ToggleUserAdmin(actor, user_id) ==
    /\ is_admin_user(users, actor)
    /\ user_id # actor
    /\ get_user_by_id(users, user_id) # None
    /\ \E user \in { get_user_by_id(users, user_id) },
          main \in { get_main_admin(users) } :
         LET new_admin_state == ~user.is_admin
             main_admin == main.ret
             req(outcome) == [fn |-> "toggle_user_admin", actor |-> actor,
                              user_id |-> user_id, outcome |-> outcome]
         IN  IF main_admin = None \/ main_admin.id # actor
             THEN users' = main.users /\ store_ret' = req("not main admin")
             ELSE IF ~new_admin_state /\ admin_count(main.users) <= 1
             THEN users' = main.users /\ store_ret' = req("last admin")
             ELSE IF ~new_admin_state /\ user.is_main_admin
             THEN users' = main.users /\ store_ret' = req("main admin")
             ELSE /\ users' = set_user_admin(main.users, user_id,
                                             new_admin_state)
                  /\ store_ret' = req("done")
    /\ UNCHANGED <<fnVars, riskVars, fetchVars, searchVars, compareVars,
                   mailVars, deleters, msgVars>>

\* create_admin.py --make-main
SetMainAdmin(user_id) ==
    /\ users' = set_main_admin(users, user_id)
    /\ store_ret' = [fn |-> "set_main_admin", user_id |-> user_id]
    /\ UNCHANGED <<fnVars, riskVars, fetchVars, searchVars, compareVars,
                   mailVars, deleters, msgVars>>

\* create_admin.py --show-main
GetMainAdmin ==
    /\ \E r \in { get_main_admin(users) } :
         /\ users' = r.users
         /\ store_ret' = [fn |-> "get_main_admin", ret |-> r.ret,
                          wrote |-> r.users # users]
    /\ UNCHANGED <<fnVars, riskVars, fetchVars, searchVars, compareVars,
                   mailVars, deleters, msgVars>>

\* file_store.set_user_admin, called as such
SetUserAdmin(user_id, is_admin) ==
    /\ users' = set_user_admin(users, user_id, is_admin)
    /\ store_ret' = [fn |-> "set_user_admin", user_id |-> user_id,
                     is_admin |-> is_admin,
                     ret |-> get_user_by_id(users, user_id) # None]
    /\ UNCHANGED <<fnVars, riskVars, fetchVars, searchVars, compareVars,
                   mailVars, deleters, msgVars>>

\* file_store.delete_user, called as such
DeleteUser(user_id) ==
    /\ users' = delete_user(users, user_id)
    /\ store_ret' = [fn |-> "delete_user", user_id |-> user_id]
    /\ UNCHANGED <<fnVars, riskVars, fetchVars, searchVars, compareVars,
                   mailVars, deleters, msgVars>>

\* the functions of file_store.py called one at a time, without the checks
\* of the routes
NextStoreCalls ==
    \/ \E username \in Usernames, email_address \in Emails,
          is_admin \in BOOLEAN, now \in Timestamps :
          CreateUser(username, email_address, is_admin, now)
    \/ \E user_id \in 1..MaxUserId, is_admin \in BOOLEAN :
          SetUserAdmin(user_id, is_admin)
    \/ \E user_id \in 1..MaxUserId : SetMainAdmin(user_id)
    \/ \E user_id \in 1..MaxUserId : DeleteUser(user_id)
    \/ GetMainAdmin

SpecStoreCalls == Init /\ [][NextStoreCalls]_vars

NextUsers ==
    \/ \E username \in Usernames, email_address \in Emails,
          is_admin \in BOOLEAN, now \in Timestamps :
          CreateUser(username, email_address, is_admin, now)
    \/ \E actor \in 1..MaxUserId, user_id \in 1..MaxUserId :
          \/ DeleteUserRoute(actor, user_id)
          \/ ToggleUserAdmin(actor, user_id)
    \/ \E user_id \in 1..MaxUserId : SetMainAdmin(user_id)
    \/ GetMainAdmin

SpecUsers == Init /\ [][NextUsers]_vars

(***************************************************************************)
(* delete_user_route requests of several admins handled at the same time,  *)
(* admin.py lines 126-140: the decorators' check of the acting user, the   *)
(* load_users of delete_user and its save_users are three steps.           *)
(***************************************************************************)
\* lines 127-132: login_required, admin_required and the check of the target
DeleteAuth(actor, user_id) ==
    /\ deleters[actor].pc = "idle"
    /\ is_admin_user(users, actor)
    /\ may_delete(actor, user_id)
    /\ deleters' = [deleters EXCEPT ![actor] =
                       [pc |-> "authorised", user_id |-> user_id]]
    /\ UNCHANGED <<fnVars, riskVars, fetchVars, searchVars, compareVars,
                   mailVars, users, store_ret, msgVars>>

\* file_store.py lines 479-480
DeleteLoad(actor) ==
    /\ deleters[actor].pc = "authorised"
    /\ deleters' = [deleters EXCEPT ![actor] =
                       [pc |-> "loaded", user_id |-> @.user_id,
                        users |-> delete_user(users, @.user_id)]]
    /\ UNCHANGED <<fnVars, riskVars, fetchVars, searchVars, compareVars,
                   mailVars, users, store_ret, msgVars>>

\* file_store.py line 481
DeleteSave(actor) ==
    /\ deleters[actor].pc = "loaded"
    /\ users' = deleters[actor].users
    /\ store_ret' = [fn |-> "delete_user_route", actor |-> actor,
                     user_id |-> deleters[actor].user_id]
    /\ deleters' = [deleters EXCEPT ![actor] = [pc |-> "idle"]]
    /\ UNCHANGED <<fnVars, riskVars, fetchVars, searchVars, compareVars,
                   mailVars, msgVars>>

\* a store with the default admin, a second admin and an ordinary user
InitTwoAdmins ==
    /\ InitButSession
    /\ payload = NoPayload
    /\ users = create_user(
                   create_user(DefaultAdmin.users, "ann", "ann@example.com",
                               TRUE, 0).users,
                   "bob", "bob@example.com", FALSE, 1).users
    /\ accounts = stored_accounts(users)
    /\ current_user = 0

NextDeleteRace ==
    \E actor \in 1..MaxUserId :
        \/ \E user_id \in 1..MaxUserId : DeleteAuth(actor, user_id)
        \/ DeleteLoad(actor)
        \/ DeleteSave(actor)

SpecDeleteRace == InitTwoAdmins /\ [][NextDeleteRace]_vars

(***************************************************************************)
(* The comparison list of a session, main.py lines 351-421.                *)
(***************************************************************************)
\* the <app_id> of a request, and what the store says the app is called
\* (developer and score are copied into the entry the same way)
AppIds == { "com.a", "com.b", "com.c" }
Titles == { "A", "A (new)" }

\* line 368
app_exists(apps, app_id) == \E i \in 1..Len(apps) : apps[i].app_id = app_id

\* line 372
has_room_beyond(apps) == Len(apps) <= 2

has_room(apps) == Len(apps) < 2

\* list.pop(index) for an index in range; Python counts from 0
pop(apps, index) ==
    SubSeq(apps, 1, index) \o SubSeq(apps, index + 2, Len(apps))

\* add_to_compare; fetch_app_details returns nothing for an unknown app or a
\* failed request
AddToCompare(app_id) ==
    \E found \in BOOLEAN, title \in Titles :
        /\ IF ~found
           THEN /\ compare_req' = [op |-> "add", app_id |-> app_id,
                                   outcome |-> "no details",
                                   before |-> compare_apps]
                /\ UNCHANGED compare_apps
           ELSE IF app_exists(compare_apps, app_id)
           THEN /\ compare_req' = [op |-> "add", app_id |-> app_id,
                                   outcome |-> "already in comparison",
                                   before |-> compare_apps]
                /\ UNCHANGED compare_apps
           ELSE IF has_room(compare_apps)
           THEN /\ compare_req' = [op |-> "add", app_id |-> app_id,
                                   outcome |-> "added",
                                   before |-> compare_apps]
                /\ compare_apps' = Append(compare_apps,
                                          [app_id |-> app_id, title |-> title])
           ELSE /\ compare_req' = [op |-> "add", app_id |-> app_id,
                                   outcome |-> "maximum 2",
                                   before |-> compare_apps]
                /\ UNCHANGED compare_apps
        /\ UNCHANGED <<fnVars, riskVars, fetchVars, searchVars, mailVars,
                       storeVars, msgVars>>

\* remove_from_compare; <int:index> is never negative.  The list is popped
\* in place and the session is assigned nothing, so whether the shorter list
\* is written back is up to the session store: both are modelled.
RemoveFromCompare(index) ==
    \E written_back \in BOOLEAN :
        /\ compare_req' = [op |-> "remove", index |-> index,
                           before |-> compare_apps]
        /\ IF 0 <= index /\ index < Len(compare_apps) /\ written_back
           THEN compare_apps' = pop(compare_apps, index)
           ELSE UNCHANGED compare_apps
        /\ UNCHANGED <<fnVars, riskVars, fetchVars, searchVars, mailVars,
                       storeVars, msgVars>>

NextCompare ==
    \/ \E app_id \in AppIds : AddToCompare(app_id)
    \/ \E index \in 0..2 : RemoveFromCompare(index)

SpecCompare == Init /\ [][NextCompare]_vars

NextRisk == SearchAppsRoute \/ AnalyzeDirect \/ SendEmailReport

SpecRisk == Init /\ [][NextRisk]_vars

(***************************************************************************)
(* modules/data_fetcher.py: fetch_reviews, one provider call per step.     *)
(* A review is a number (1000 * call + position in the page); a            *)
(* continuation token is the number of the call that issued it, 0 is None. *)
(***************************************************************************)
\* line 48: at most 200 reviews are asked of the provider per call
BatchSize == 200

\* the limits the callers pass: 100 (comparison), 200 (default), and the
\* session's value, clamped to [10, 1000]
MaxReviewsValues == { 10, 100, 200, 201, 400, 1000 }

\* line 48
count_to_fetch_whole_batch(limit, fetched) == BatchSize

count_to_fetch(limit, fetched) == Min(BatchSize, limit - fetched)

fetch_return_unsliced(reviews, limit) == reviews

\* all_reviews[:max_reviews], line 66 (max_reviews >= 0)
fetch_return(reviews, limit) == SubSeq(reviews, 1, Min(limit, Len(reviews)))

\* the page the provider hands out at call k when asked for `count` reviews:
\* nothing, one review, one fewer than asked, what was asked, or one more
PageLengths(count) == { 0, 1, count - 1, count, count + 1 }
Page(k, len) == [j \in 1..len |-> 1000 * k + j]

FetchStart ==
    /\ pc = "idle"
    /\ \E m \in MaxReviewsValues : max_reviews' = m
    /\ all_reviews' = <<>>
    /\ continuation_token' = 0
    /\ pc' = "loop"
    /\ UNCHANGED <<provider_pages, provider_raised, requested, provider_tokens,
                   fetch_ret, fnVars, riskVars, webVars>>

\* the loop condition of line 47 is false: line 66
FetchLoopExit ==
    /\ pc = "loop"
    /\ ~(Len(all_reviews) < max_reviews)
    /\ fetch_ret' = [returned |-> TRUE, exception |-> FALSE,
                     value |-> fetch_return(all_reviews, max_reviews)]
    /\ pc' = "done"
    /\ UNCHANGED <<max_reviews, all_reviews, continuation_token, provider_pages,
                   provider_raised, requested, provider_tokens, fnVars,
                   riskVars, webVars>>

\* lines 48-64, the provider returning (result, new_token)
FetchPage ==
    /\ pc = "loop"
    /\ Len(all_reviews) < max_reviews
    /\ LET count == count_to_fetch(max_reviews, Len(all_reviews))
           k == Len(requested) + 1
       IN  /\ count > 0
           /\ requested' = Append(requested, count)
           /\ \E len \in PageLengths(count), new_token \in { 0, k } :
                LET result == Page(k, len)
                    extended == all_reviews \o result
                IN  /\ provider_pages' = Append(provider_pages, result)
                    /\ provider_tokens' = Append(provider_tokens, new_token)
                    /\ all_reviews' = extended
                    /\ IF new_token = 0 \/ Len(result) < count
                       THEN /\ pc' = "done"
                            /\ fetch_ret' = [returned |-> TRUE, exception |-> FALSE,
                                             value |-> fetch_return(extended, max_reviews)]
                            /\ UNCHANGED continuation_token
                       ELSE /\ pc' = "loop"
                            /\ continuation_token' = new_token
                            /\ UNCHANGED fetch_ret
    /\ UNCHANGED <<max_reviews, provider_raised, fnVars, riskVars, webVars>>

\* lines 52-59 raising: the except of lines 67-69
FetchProviderRaises ==
    /\ pc = "loop"
    /\ Len(all_reviews) < max_reviews
    /\ requested' = Append(requested,
                           count_to_fetch(max_reviews, Len(all_reviews)))
    /\ provider_raised' = TRUE
    /\ fetch_ret' = [returned |-> TRUE, exception |-> FALSE, value |-> <<>>]
    /\ pc' = "done"
    /\ UNCHANGED <<max_reviews, all_reviews, continuation_token, provider_pages,
                   provider_tokens, fnVars, riskVars, webVars>>

NextFetch == FetchStart \/ FetchLoopExit \/ FetchPage \/ FetchProviderRaises

SpecFetch == Init /\ [][NextFetch]_vars

\* a call of fetch_reviews that was started keeps running, and every
\* provider call returns or raises
SpecFetchRuns ==
    SpecFetch /\ WF_vars(FetchLoopExit \/ FetchPage \/ FetchProviderRaises)

(***************************************************************************)
(* The properties.  What a claim says of a text, a row or a count is       *)
(* stated here on its own terms, not through the operators above.          *)
(***************************************************************************)
KeywordSet == { NEGATIVE_KEYWORDS[i] : i \in 1..Len(NEGATIVE_KEYWORDS) }

\* chars contains an entry of NEGATIVE_KEYWORDS, case-insensitively
ContainsKeyword(chars) ==
    \E k \in KeywordSet :
        \E s \in 1..(Len(chars) - Len(k) + 1) :
            \A j \in 1..Len(k) : LowerChar(chars[s + j - 1]) = k[j]

CountOf(df, label) ==
    Cardinality({ i \in 1..Len(df.rows) : df.rows[i].sentiment = label })

\* a labelled collection: the frame carries a sentiment column
IsCalc == call.fn = "calculate_sentiment_metrics"
Labelled == IsCalc /\ ~call.df.isNone /\ call.df.has_sentiment
AllThree ==
    \A i \in 1..Len(call.df.rows) :
        call.df.rows[i].sentiment \in { "Positive", "Negative", "Neutral" }

C2_KeywordOverride ==
    (call.fn = "analyze_sentiment" /\ call.text.isStr
       /\ ContainsKeyword(call.text.chars)) =>
        /\ ret.value = -80
        /\ ~ret.textblob_called

C2_Witness ==
    /\ call.fn = "analyze_sentiment"
    /\ call.text = Str(<<"g","o","o","d","S","c","A","M">>)
    /\ call.textblob = 100
    /\ ret.value = -80
    /\ ~ret.textblob_called

\* C3: the label is Positive exactly when the polarity is above 0.1, Negative
\* exactly when it is below -0.1 and Neutral otherwise (so at 0.1 and at -0.1);
\* both label expressions of main.py give one of the three labels.
C3_LabelThresholds ==
    (call.fn \in { "label_direct", "label_comparison" }) =>
        /\ ret.label \in { "Positive", "Negative", "Neutral" }
        /\ (ret.label = "Positive") <=> (call.polarity > 10)
        /\ (ret.label = "Negative") <=> (call.polarity < -10)
        /\ (ret.label = "Neutral") <=> (call.polarity >= -10 /\ call.polarity <= 10)

C3_Witness ==
    /\ call.fn = "label_direct"
    /\ call.polarity = 10
    /\ ret.label = "Neutral"

\* C4: risk_detected is negative_pct > fraud_threshold (no risk at equality);
\* the page's message is the warning exactly when risk is detected and the
\* no-risk string otherwise; an email built from the same negative_pct and
\* threshold as the page carries the risk alert exactly when the page detected
\* risk.
C4_RiskDecision ==
    /\ page.rendered =>
        /\ page.risk_detected <=>
             (page.negative_pct.n * page.fraud_threshold.d
                > page.fraud_threshold.n * page.negative_pct.d)
        /\ (page.risk_message = "RISK_WARNING_SHORT") <=> page.risk_detected
        /\ (page.risk_message = "No risk indicators") <=> ~page.risk_detected
    /\ (page.rendered /\ email.sent
          /\ email.negative_pct = page.negative_pct
          /\ email.fraud_threshold = page.fraud_threshold) =>
        /\ (email.section = "Risk Alert") <=> page.risk_detected
        /\ (email.section = "No Significant Risk") <=> ~page.risk_detected

C4_Witness ==
    /\ page.rendered /\ email.sent
    /\ page.negative_pct = Rat(50) /\ page.fraud_threshold = Rat(50)
    /\ email.negative_pct = Rat(50) /\ email.fraud_threshold = Rat(50)
    /\ ~page.risk_detected
    /\ email.section = "No Significant Risk"

(***************************************************************************)
(* The classification report, against the cells as the claims define them. *)
(***************************************************************************)
IsClass == call.fn = "compute_classification_metrics"

\* a non-empty labelled collection: rows, a content and a sentiment column
LabelledRows ==
    /\ IsClass /\ ~call.df.isNone
    /\ call.df.has_content /\ call.df.has_sentiment
    /\ Len(call.df.rows) > 0

NoRows == IsClass /\ (call.df.isNone \/ Len(call.df.rows) = 0)

\* the weak ground truth and the predicted flag of one review
TruthOf(row) == row.content.isStr /\ ContainsKeyword(row.content.chars)
PredOf(row)  == row.sentiment = "Negative"

CellOf(row) ==
    IF TruthOf(row) THEN (IF PredOf(row) THEN "tp" ELSE "fn")
    ELSE (IF PredOf(row) THEN "fp" ELSE "tn")

\* the cell of every review of the collection, in order
CellsOf(df) == [i \in 1..Len(df.rows) |-> CellOf(df.rows[i])]

CellCount(cells, c) == Cardinality({ i \in DOMAIN cells : cells[i] = c })

\* the positions of the reviews of cell c, in order
RECURSIVE CellPositions(_, _, _)
CellPositions(cells, c, i) ==
    IF i > Len(cells) THEN <<>>
    ELSE IF cells[i] = c THEN <<i>> \o CellPositions(cells, c, i + 1)
    ELSE CellPositions(cells, c, i + 1)

InUnit(x) == ~IsError(x) /\ x.n >= 0 /\ x.n <= x.d

\* C5: for a non-empty labelled collection every review lands in exactly one
\* of tp, tn, fp, fn, so the four counts add up to the number of reviews; for
\* an empty or missing collection the four counts are 0.
C5_ConfusionPartition ==
    /\ LabelledRows =>
        \A cells \in { CellsOf(call.df) } :
            /\ \A c \in { "tp", "tn", "fp", "fn" } :
                  ret.confusion[c] = CellCount(cells, c)
            /\ ret.confusion.tp + ret.confusion.tn + ret.confusion.fp
                 + ret.confusion.fn = Len(call.df.rows)
    /\ NoRows =>
        \A c \in { "tp", "tn", "fp", "fn" } : ret.confusion[c] = 0

C5_Witness ==
    /\ LabelledRows
    /\ Len(call.df.rows) = 3
    /\ ret.confusion.fn = 1 /\ ret.confusion.fp = 1 /\ ret.confusion.tn = 1

C7_CompositeScore ==
    (Labelled /\ Len(call.df.rows) > 0) =>
        /\ ret.raised = "none"
        /\ LET pos == ret.positive_pct
               neg == ret.negative_pct
               neu == ret.neutral_pct
               sum == RAdd(pos, neg)
               score == ret.app_rating_score
           IN  /\ IF sum.n > 0
                  THEN score = RMin(Rat(100),
                                    RAdd(pos, RDiv(RMul(neu, pos), sum)))
                  ELSE score = pos /\ score = Zero
               /\ RLeq(Zero, score) /\ RLeq(score, Rat(100))
               /\ RLeq(pos, score) /\ RLeq(score, RAdd(pos, neu))

C7_Witness ==
    /\ Labelled /\ Len(call.df.rows) = 3
    /\ CountOf(call.df, "Positive") = 1
    /\ CountOf(call.df, "Negative") = 1
    /\ CountOf(call.df, "Neutral") = 1
    /\ ret.app_rating_score = Rat(50)

\* C8: accuracy = (tp+tn)/total, precision = tp/(tp+fp), recall = tp/(tp+fn),
\* f1 = 2*precision*recall/(precision+recall), each 0 when its denominator is
\* 0; the four values lie in [0, 1] and nothing is divided by zero.
C8_DerivedMetrics ==
    /\ IsClass =>
        /\ InUnit(ret.accuracy) /\ InUnit(ret.precision)
        /\ InUnit(ret.recall) /\ InUnit(ret.f1)
    /\ NoRows =>
        /\ ret.accuracy = Zero /\ ret.precision = Zero
        /\ ret.recall = Zero /\ ret.f1 = Zero
    /\ LabelledRows =>
        \A cells \in { CellsOf(call.df) } :
          \A tp \in { CellCount(cells, "tp") }, tn \in { CellCount(cells, "tn") },
             fp \in { CellCount(cells, "fp") }, fn \in { CellCount(cells, "fn") } :
            \A p \in { IF tp + fp = 0 THEN Zero ELSE Norm(tp, tp + fp) },
               r \in { IF tp + fn = 0 THEN Zero ELSE Norm(tp, tp + fn) } :
                /\ ret.accuracy = Norm(tp + tn, tp + tn + fp + fn)
                /\ ret.precision = p
                /\ ret.recall = r
                /\ ret.f1 = IF p.n + r.n = 0 THEN Zero
                            ELSE Norm(2 * p.n * r.n * p.d * r.d,
                                      p.d * r.d * (p.n * r.d + r.n * p.d))

C8_Witness ==
    /\ LabelledRows
    /\ ret.confusion.tp = 1 /\ ret.confusion.fp = 1 /\ ret.confusion.fn = 1
    /\ ret.precision = Norm(1, 2) /\ ret.recall = Norm(1, 2)
    /\ ret.f1 = Norm(1, 2) /\ ret.accuracy = Norm(1, 3)

\* the example a review gives: its text (as str() prints it), its label and
\* whether the text holds a negative keyword
ExampleOf(row) ==
    [content |-> IF row.content.isStr THEN row.content
                 ELSE Str(<<"N","o","n","e">>),
     predicted |-> IF row.sentiment = "NaN" THEN "nan" ELSE row.sentiment,
     contains_negative_keyword |-> TruthOf(row)]

\* C9: the examples of each cell are the first min(count, sample_each) reviews
\* of that cell, in the order of the input collection, each with the review's
\* own text, predicted label and keyword flag.
C9_FirstExamples ==
    LabelledRows =>
        \A cells \in { CellsOf(call.df) } :
          \A c \in { "tp", "tn", "fp", "fn" } :
            \A at \in { CellPositions(cells, c, 1) } :
              \A m \in { IF call.sample_each < Len(at) THEN call.sample_each
                         ELSE Len(at) } :
                /\ Len(ret.examples[c]) = m
                /\ \A k \in 1..m :
                      ret.examples[c][k] = ExampleOf(call.df.rows[at[k]])

C9_Witness ==
    /\ LabelledRows
    /\ call.sample_each = 1
    /\ Len(call.df.rows) = 3
    /\ call.df.rows[1].idx = 2
    /\ CellOf(call.df.rows[1]) = "tn" /\ CellOf(call.df.rows[3]) = "tn"
    /\ call.df.rows[1].content = Str(<<"g","o","o","d">>)
    /\ call.df.rows[3].content = NoneText
    /\ Len(ret.examples.tn) = 1
    /\ ret.examples.tn[1].content = call.df.rows[1].content

(***************************************************************************)
(* fetch_reviews.                                                          *)
(***************************************************************************)
RECURSIVE Flatten(_)
Flatten(pages) ==
    IF pages = <<>> THEN <<>> ELSE Head(pages) \o Flatten(Tail(pages))

IsPrefix(s, t) == Len(s) <= Len(t) /\ SubSeq(t, 1, Len(s)) = s

\* C10: fetch_reviews returns at most max_reviews reviews, a prefix of the
\* provider's pages concatenated in fetch order; if a provider call raises it
\* returns the empty list and no exception reaches the caller, even after
\* pages were fetched.
C10_FetchResult ==
    (pc = "done") =>
        /\ fetch_ret.returned /\ ~fetch_ret.exception
        /\ Len(fetch_ret.value) <= max_reviews
        /\ IsPrefix(fetch_ret.value, Flatten(provider_pages))
        /\ provider_raised => fetch_ret.value = <<>>
        /\ ~provider_raised =>
             Len(fetch_ret.value) = Min(max_reviews, Len(Flatten(provider_pages)))

C10_Witness ==
    /\ pc = "done"
    /\ provider_raised
    /\ Len(provider_pages) >= 1 /\ Len(provider_pages[1]) = BatchSize
    /\ fetch_ret.returned /\ fetch_ret.value = <<>>

(***************************************************************************)
(* The search form's settings and the analysis that follows a search.      *)
(***************************************************************************)
\* x limited to [lo, hi], for rationals and for integers
LimitedTo(x, lo, hi) ==
    IF x.n < lo * x.d THEN Rat(lo) ELSE IF x.n > hi * x.d THEN Rat(hi) ELSE x

LimitedInt(n, lo, hi) == IF n < lo THEN lo ELSE IF n > hi THEN hi ELSE n

\* the last search submitted a numeric threshold below 0 or above 100
OutOfRangeSubmitted ==
    /\ search_req.made
    /\ search_req.path # "empty"
    /\ search_req.form.fraud_threshold.parsed
    /\ \/ search_req.form.fraud_threshold.value.n < 0
       \/ search_req.form.fraud_threshold.value.n
            > 100 * search_req.form.fraud_threshold.value.d

\* C11 as stated: a threshold that is negative or greater than 100 is not
\* used in a risk decision, neither as it is nor after adjustment to the
\* nearest admissible value.
C11_OutOfRangeNotUsed ==
    (OutOfRangeSubmitted /\ page.rendered) =>
        /\ page.fraud_threshold # search_req.form.fraud_threshold.value
        /\ page.fraud_threshold
             # LimitedTo(search_req.form.fraud_threshold.value, 1, 100)

\* C11 (amended): a threshold that is negative or greater than 100 is not
\* rejected.  A search that stores its settings stores it limited to
\* [1.0, 100.0] and the analysis that follows decides with that value; every
\* risk decision is taken with a threshold within [1.0, 100.0].
C11_OutOfRangeClamped ==
    /\ page.rendered =>
          /\ page.fraud_threshold.n >= page.fraud_threshold.d
          /\ page.fraud_threshold.n <= 100 * page.fraud_threshold.d
    /\ (OutOfRangeSubmitted /\ search_req.path \in { "search", "not_found" }) =>
          /\ last_fraud_threshold.present
          /\ last_fraud_threshold.value
               = LimitedTo(search_req.form.fraud_threshold.value, 1, 100)
          /\ page.rendered =>
                page.fraud_threshold
                  = LimitedTo(search_req.form.fraud_threshold.value, 1, 100)

C11_Witness ==
    /\ OutOfRangeSubmitted
    /\ search_req.path = "search"
    /\ search_req.form.fraud_threshold.value = Rat(-5)
    /\ page.rendered
    /\ page.fraud_threshold = Rat(1)
    /\ page.negative_pct = Zero
    /\ ~page.risk_detected

\* C20: the analysis that follows a search decides with the fraud threshold
\* submitted with that search, limited to [1.0, 100.0], and fetches with the
\* review limit submitted with it, limited to [10, 1000], whether the search
\* was for a name or for an app id that redirects straight to the analysis.
C20_SubmittedSettingsUsed ==
    (/\ page.rendered
     /\ search_req.made
     /\ search_req.path \in { "search", "not_found", "direct" }
     /\ search_req.form.fraud_threshold.parsed
     /\ search_req.form.max_reviews.parsed) =>
        /\ page.fraud_threshold
             = LimitedTo(search_req.form.fraud_threshold.value, 1, 100)
        /\ page.max_reviews
             = LimitedInt(search_req.form.max_reviews.value, 10, 1000)

(***************************************************************************)
(* Two calls of add_message, each the latest of its caller and both        *)
(* returned.  They interleave when both loaded the same version of the     *)
(* file; they do not when the later one loaded what the earlier one saved. *)
(***************************************************************************)
BothReturned(p, q) ==
    /\ p # q
    /\ adders[p].pc = "done"
    /\ adders[q].pc = "done"
    /\ adders[p].saved_version < adders[q].saved_version

InFile(message) == \E i \in 1..Len(messages) : messages[i] = message

\* C12: when both calls load the file before either saves, the file ends up
\* as the list the later save wrote, the earlier saver's message is not in
\* it and both calls return the same id; when the second call loads what the
\* first one saved, both messages are in the file, with distinct ids.
C12_LastWriterWins ==
    \A p \in Callers, q \in Callers :
        BothReturned(p, q) =>
            /\ adders[p].loaded_version = adders[q].loaded_version =>
                  /\ messages = adders[q].messages
                  /\ ~InFile(adders[p].ret)
                  /\ InFile(adders[q].ret)
                  /\ adders[p].ret.id = adders[q].ret.id
            /\ adders[q].loaded_version = adders[p].saved_version =>
                  /\ InFile(adders[p].ret)
                  /\ InFile(adders[q].ret)
                  /\ adders[p].ret.id # adders[q].ret.id

\* the lost update: both calls loaded the empty file, "a" saved first
C12_Witness ==
    /\ BothReturned("a", "b")
    /\ adders["a"].loaded_version = 0
    /\ adders["b"].loaded_version = 0
    /\ Len(messages) = 1
    /\ messages[1] = adders["b"].ret
    /\ adders["a"].ret.id = 1
    /\ adders["b"].ret.id = 1
    /\ adders["a"].ret.timestamp # adders["b"].ret.timestamp

\* C13: requests of a logged-in user handled one at a time.  No more than 10
\* reports go out on one calendar date for requests the user made while
\* verified (a new date is counted from 0), a report goes out for an
\* unverified user only if email_sent_total was below 50 when it was asked
\* for, and a request made with the quota used up sends nothing and writes
\* no counter.
C13_QuotaUsedUp ==
    LET user == get_user_by_id(users, current_user)
    IN  IF user.is_verified THEN sent_today[user.id] >= 10
        ELSE user.email_sent_total >= 50

C13_ReportsWithinQuota ==
    /\ \A user_id \in 1..MaxUserId : sent_today[user_id] <= 10
    /\ (mail_req.made /\ mail_req.user # 0 /\ mail_req.outcome = "sent") =>
          IF mail_req.verified THEN mail_req.on_that_date <= 10
          ELSE mail_req.email_sent_total < 50

C13_UsedUpRequestChangesNothing ==
    (mail_req' # mail_req /\ mail_req'.user # 0 /\ C13_QuotaUsedUp) =>
        /\ email' = email
        /\ users' = users
        /\ sent_today' = sent_today

C13_Quota ==
    []C13_ReportsWithinQuota /\ [][C13_UsedUpRequestChangesNothing]_vars

\* on the second date, a user who was refused the 51st report while
\* unverified is refused the 11th of that date once verified
C13_Witness ==
    /\ today = 1
    /\ mail_req.made /\ mail_req.user = 2 /\ mail_req.outcome = "refused"
    /\ mail_req.verified
    /\ sent_today[2] = 10
    /\ get_user_by_id(users, 2).email_sent_total = 60


\* C14: in one session that is not logged in, at most 3 reports go out;
\* anon_email_sent_count goes up by exactly one with each report that goes
\* out and stays as it is when none does, and a request made with the count
\* at 3 or more sends nothing.
C14_CountIsReportsSent ==
    /\ anon_sent <= 3
    /\ anon_email_sent_count = anon_sent

C14_OneReportAtATime ==
    /\ anon_sent' \in { anon_sent, anon_sent + 1 }
    /\ anon_email_sent_count >= 3 => (anon_sent' = anon_sent /\ email' = email)

C14_AnonymousLimit ==
    []C14_CountIsReportsSent /\ [][C14_OneReportAtATime]_vars

\* the fourth request of a session, refused after three reports went out
C14_Witness ==
    /\ anon_sent = 3
    /\ mail_req.made /\ mail_req.user = 0 /\ mail_req.outcome = "refused"


\* C15: a call of get_main_admin with an admin in the store returns an admin
\* that the store holds, after the call, with is_main_admin true; when no
\* admin was marked it is one with the earliest created_at.  With no admin
\* in the store it returns None and leaves the store as it was.
C15_IsGetMainAdmin ==
    /\ store_ret'.fn = "get_main_admin"
    /\ store_ret' # store_ret \/ users' # users

C15_MainAdminReturned ==
    C15_IsGetMainAdmin =>
        LET main == store_ret'.ret
            admins == { i \in 1..Len(users) : users[i].is_admin }
            marked == { i \in admins : users[i].is_main_admin }
        IN  IF admins = {}
            THEN main = None /\ users' = users
            ELSE /\ main # None
                 /\ main.is_admin /\ main.is_main_admin
                 /\ \E i \in 1..Len(users') : users'[i] = main
                 /\ marked = {} =>
                       \A i \in admins : main.created_at <= users[i].created_at

C16_AnAdminRemains ==
    \E i \in 1..Len(users) : users[i].is_admin

\* an admin has deleted the default admin and is the only admin left
C16_Witness ==
    /\ store_ret.fn = "delete_user_route"
    /\ store_ret.user_id = 1
    /\ get_user_by_id(users, 1) = None
    /\ admin_count(users) = 1

\* C18: create_user with a username or an email that a stored user has
\* returns None and leaves the store as it was, and no two stored users
\* have the same id, username or email.
C18_IsCreateUser ==
    /\ store_ret'.fn = "create_user"
    /\ store_ret' # store_ret \/ users' # users

C18_DuplicateRefused ==
    (/\ C18_IsCreateUser
     /\ \E i \in 1..Len(users) :
           \/ users[i].username = store_ret'.username
           \/ users[i].email = store_ret'.email)
    => (store_ret'.ret = None /\ users' = users)

C18_NoTwoAlike ==
    \A i \in 1..Len(users), j \in 1..Len(users) :
        i # j => /\ users[i].id # users[j].id
                 /\ users[i].username # users[j].username
                 /\ users[i].email # users[j].email

C18_UniqueUsers == []C18_NoTwoAlike /\ [][C18_DuplicateRefused]_vars

\* a new username with the email of a stored user, refused
C18_Witness ==
    /\ store_ret.fn = "create_user"
    /\ store_ret.ret = None
    /\ get_user_by_username(users, store_ret.username) = None
    /\ get_user_by_email(users, store_ret.email) # None


\* C17: in one session compare_apps never holds more than 2 entries and no
\* two of them have the same app_id; an add of an app that is in the list,
\* or to a list of 2, and a remove with an index that is out of range leave
\* the list as it was.
C17_AddRefused ==
    /\ compare_req.op = "add"
    /\ compare_req.outcome # "no details"
    /\ \/ Len(compare_req.before) >= 2
       \/ \E i \in 1..Len(compare_req.before) :
             compare_req.before[i].app_id = compare_req.app_id

C17_RemoveOutOfRange ==
    /\ compare_req.op = "remove"
    /\ compare_req.index >= Len(compare_req.before)

C17_CompareList ==
    /\ Len(compare_apps) <= 2
    /\ \A i \in 1..Len(compare_apps), j \in 1..Len(compare_apps) :
          i # j => compare_apps[i].app_id # compare_apps[j].app_id
    /\ C17_AddRefused \/ C17_RemoveOutOfRange
          => compare_apps = compare_req.before

\* a third app was asked for with two in the list
C17_Witness ==
    /\ compare_req.op = "add"
    /\ compare_req.outcome = "maximum 2"
    /\ Len(compare_apps) = 2


\* C19: fetch_reviews comes to an end when every provider call returns or
\* raises.  Each provider call asks for between 1 and 200 reviews and for no
\* more than are still missing; a call that hands out no continuation token,
\* or fewer reviews than asked for, is the last one; and when no call hands
\* out more than asked for there are at most ceil(max_reviews / 200) calls.
RECURSIVE C19_Fetched(_)
C19_Fetched(k) ==
    IF k = 0 THEN 0 ELSE C19_Fetched(k - 1) + Len(provider_pages[k])

C19_CallsWithinLimits ==
    \A k \in 1..Len(requested) :
        /\ 1 <= requested[k] /\ requested[k] <= 200
        /\ requested[k] <= max_reviews - C19_Fetched(k - 1)

C19_StopsAtShortPage ==
    \A k \in 1..Len(provider_pages) :
        (provider_tokens[k] = 0 \/ Len(provider_pages[k]) < requested[k])
            => (k = Len(requested) /\ pc = "done")

C19_CallsBounded ==
    (\A k \in 1..Len(provider_pages) : Len(provider_pages[k]) <= requested[k])
        => 200 * Len(requested) < max_reviews + 200

C19_FetchTerminates ==
    /\ [](C19_CallsWithinLimits /\ C19_StopsAtShortPage /\ C19_CallsBounded)
    /\ (pc = "loop") ~> (pc = "done")

\* 1000 reviews fetched in five full pages
C19_Witness ==
    /\ pc = "done"
    /\ max_reviews = 1000
    /\ Len(requested) = 5
    /\ \A k \in 1..5 : Len(provider_pages[k]) = 200


\* C21: with two send_email_report requests of one verified user taking
\* their quota checks and counter updates in any order, no more than 10
\* reports go out for the user on one date, and once both requests are
\* through email_sent_today and email_sent_total are the number of reports
\* that went out.
C21_QuotaUnderInterleaving ==
    LET user == get_user_by_id(users, current_user)
    IN  /\ sent_today[current_user] <= 10
        /\ (\A r \in Requests : senders[r] = "idle") =>
              /\ user.email_sent_today = sent_today[current_user]
              /\ user.email_sent_total = sent_today[current_user]


\* C22: when the delete_user_route requests of two admins, each deleting the
\* other, have both finished, whatever the order of their checks, loads and
\* saves, the store still holds an admin.
C22_AnAdminRemainsAfterBoth ==
    (\A actor \in 1..MaxUserId : deleters[actor].pc = "idle")
        => \E i \in 1..Len(users) : users[i].is_admin


\* C23: in analyze_direct every review whose text holds a negative keyword
\* is labelled Negative, so the classification metrics of the page have
\* fn = 0, and recall 1 when tp > 0 and 0 otherwise.
C23_KeywordReviewsNegative ==
    (call.fn = "analyze_direct" /\ ret.raised = "none") =>
        /\ \A i \in 1..Len(call.df.rows) :
              gt_negative(fillna_text(call.df.rows[i].content))
                  => call.df.rows[i].sentiment = "Negative"
        /\ ret.classification_metrics.confusion.fn = 0
        /\ ret.classification_metrics.recall =
              IF ret.classification_metrics.confusion.tp > 0 THEN Rat(1) ELSE Zero

\* a keyword review among reviews that TextBlob finds neutral and negative
C23_Witness ==
    /\ call.fn = "analyze_direct" /\ ret.raised = "none"
    /\ ret.classification_metrics.confusion.tp = 1
    /\ ret.classification_metrics.confusion.fp = 1
    /\ ret.classification_metrics.confusion.tn = 1


\* whether the message at position j was added for an account that has
\* been deleted since
AddedForDeleted(j) ==
    \E a \in 1..Len(accounts) :
        /\ accounts[a].id = messages[j].user_id
        /\ accounts[a].deleted # NoDate
        /\ accounts[a].created < j /\ j <= accounts[a].deleted

\* C24: no id is given to two accounts, so the messages and the unread
\* count of a stored user hold no message added for a deleted user.
C24_IdNeverReused ==
    /\ \A a, b \in 1..Len(accounts) : a # b => accounts[a].id # accounts[b].id
    /\ \A i \in 1..Len(users) :
          /\ \A j \in 1..Len(messages) :
                AddedForDeleted(j) =>
                    \A k \in 1..Len(get_user_messages(messages, users[i].id)) :
                        get_user_messages(messages, users[i].id)[k] # messages[j]
          /\ get_unread_message_count(messages, users[i].id) =
                Cardinality({ j \in 1..Len(messages) :
                                /\ messages[j].user_id = users[i].id
                                /\ ~messages[j].is_read
                                /\ ~AddedForDeleted(j) })


\* C25: after create_user, set_user_admin, set_main_admin, delete_user and
\* get_main_admin calls made one at a time, at most one stored user is
\* marked main admin, and a user marked main admin is an admin.
C25_OneMainAdminAnAdmin ==
    /\ Cardinality({ i \in 1..Len(users) : users[i].is_main_admin }) <= 1
    /\ \A i \in 1..Len(users) : users[i].is_main_admin => users[i].is_admin

====
